---------------------------- MODULE Spec2Model ----------------------------
(***************************************************************************)
(* Name sign generator (namesign.py, namesign_gui.py).                     *)
(*                                                                         *)
(* Four state machines share this module:                                  *)
(*   SpecGenerate  generate_sign and the builders it calls, with solids    *)
(*                 as sets of unit cells <<x, y, z>>;                      *)
(*   SpecExport    MainWindow._on_export, ExportThread.run and the queued  *)
(*                 signal handlers of the main window;                     *)
(*   SpecGeometry  the 2D outline / offset / border arithmetic, applied    *)
(*                 to inputs drawn from bounded sets;                      *)
(*   SpecLayout    font sizing, line positions and text pieces, applied    *)
(*                 to inputs drawn from bounded sets.                      *)
(* Lengths are integers in units of 0.1 mm, so the 0.1 mm epsilon of       *)
(* _clamp_radius is 1.  Widths and heights are even, which keeps w / 2     *)
(* exact as Python's float division is.                                    *)
(***************************************************************************)
EXTENDS Integers, Sequences, FiniteSets, TLC

VARIABLES
    \* ---- generate_sign (SpecGenerate)
    params,         \* the SignParams value of the pass
    gpc,            \* position inside generate_sign
    plate,          \* Solid: the full plate
    text_solids,    \* Solid or None: result of _create_text_solids
    border,         \* Solid or None: result of _create_border_frame
    black_combined, \* Solid or None: union of black_parts
    black_piece,    \* Solid or None: returned detail piece
    white_piece,    \* Solid or None: returned base piece
    cut_tool,       \* Solid or None: the operand handed to plate.cut
    glog,           \* what happened: primary failure, warnings, raised error
    \* ---- export worker and main window (SpecExport)
    panel,          \* the parameter panel's current values
    export_btn,     \* export button enabled?
    threads,        \* every ExportThread created; the last is self.export_thread
    queue,          \* signals queued from the workers to the UI thread
    ui,             \* preview parameters, status label, message boxes shown
    \* ---- 2D geometry (SpecGeometry)
    geo,            \* last geometry function applied: name, inputs, result
    \* ---- text layout (SpecLayout)
    lay             \* last layout function applied: name, inputs, result

genVars == <<params, gpc, plate, text_solids, border, black_combined,
             black_piece, white_piece, cut_tool, glog>>
expVars == <<panel, export_btn, threads, queue, ui>>
geoVars == <<geo>>
layVars == <<lay>>
vars == <<genVars, expVars, geoVars, layVars>>

-----------------------------------------------------------------------------
(* Shared arithmetic *)

Max(a, b) == IF a >= b THEN a ELSE b
Min(a, b) == IF a <= b THEN a ELSE b
Min3(a, b, c) == Min(a, Min(b, c))
Abs(a) == IF a < 0 THEN -a ELSE a

\* 0.1 mm, the epsilon and the threshold of the outline builders
Eps == 1

\* _clamp_radius(r, w, h): max(0, min(r, w/2 - 0.1, h/2 - 0.1))
clamp_radius_nofloor(r, w, h) == Min3(r, (w \div 2) - Eps, (h \div 2) - Eps)
clamp_radius(r, w, h) == Max(0, Min3(r, (w \div 2) - Eps, (h \div 2) - Eps))

\* A 2D wire: the outline kind, its dimensions, its corner radius, and the
\* inward distance d a later offset2D(-d) moved it by.
Wire(kind, w, h, r) == [kind |-> kind, w |-> w, h |-> h, r |-> r, d |-> 0]

\* _create_concave_wire(w, h, r)
create_concave_wire(w, h, r) ==
    LET rc == clamp_radius(r, w, h)
    IN  IF rc < Eps THEN Wire("rect", w, h, 0) ELSE Wire("concave", w, h, rc)

\* _create_rounded_wire(w, h, r)
create_rounded_wire(w, h, r) ==
    LET rc == clamp_radius(r, w, h)
    IN  IF rc < Eps THEN Wire("rect", w, h, 0) ELSE Wire("rounded", w, h, rc)

\* _create_outline_wire(w, h, r, style)
create_outline_wire(w, h, r, style) ==
    IF style = "concave" THEN create_concave_wire(w, h, r)
    ELSE IF style = "rounded" THEN create_rounded_wire(w, h, r)
    ELSE Wire("rect", w, h, 0)


-----------------------------------------------------------------------------
(* Solids as cell sets.  A cell <<x, y, z>> is the unit cube whose x range *)
(* is [x-1, x] for x > 0 and [x, x+1] for x < 0 (likewise y), and whose z  *)
(* range is [z, z+1].  There is no cell 0 in x or y, so the YZ mirror maps *)
(* cells to cells.                                                         *)

MaxHalf  == 2   \* largest plate half-width / half-height, in cells
MaxDepth == 2   \* largest thickness / text depth, in layers
MaxLines == 2   \* most text lines
MaxOff   == 1   \* largest border offset
MaxBW    == 1   \* largest border width
MaxR     == 1   \* largest requested corner radius

GridHalf == MaxHalf + 1
Axis     == (-GridHalf .. GridHalf) \ {0}

None == [some |-> FALSE, cells |-> {}]
Solid(cs) == [some |-> TRUE, cells |-> cs]

Sq(a) == a * a

\* Is the 2D cell <<x, y>> inside the wire?  The kernel's shapes, rasterised
\* by cell centre:
\*   rect     |x| <= w/2 - d, |y| <= h/2 - d
\*   rounded  the same box with convex fillets of radius max(0, r - d)
\*   concave  the same box less the discs of radius r + d about the corners
\*            of the original w x h rectangle
InWire(wire, x, y) ==
    LET hw == (wire.w \div 2) - wire.d
        hh == (wire.h \div 2) - wire.d
        ax == Abs(x)
        ay == Abs(y)
        inBox == ax <= hw /\ ay <= hh
    IN  CASE wire.kind = "rect" -> inBox
          [] wire.kind = "rounded" ->
                LET rr == Max(0, wire.r - wire.d)
                    \* twice the distance of the cell centre past the fillet centre
                    ex == (2 * ax - 1) - 2 * (hw - rr)
                    ey == (2 * ay - 1) - 2 * (hh - rr)
                IN  inBox /\ ~(ex > 0 /\ ey > 0 /\ Sq(ex) + Sq(ey) > 4 * Sq(rr))
          [] wire.kind = "concave" ->
                LET R  == wire.r + wire.d
                    ex == wire.w - (2 * ax - 1)
                    ey == wire.h - (2 * ay - 1)
                IN  inBox /\ ~(Sq(ex) + Sq(ey) < 4 * Sq(R))

\* wire.extrude(depth)
Extrude(wire, depth) ==
    {c \in Axis \X Axis \X (0 .. depth - 1) : InWire(wire, c[1], c[2])}

\* wire.offset2D(-d, kind="arc")
Offset2D(wire, d) == [wire EXCEPT !.d = d]

\* solid.mirror("YZ")
MirrorYZ(cs) == {<<-c[1], c[2], c[3]>> : c \in cs}

\* _create_outline_solid(w, h, r, style, depth)
create_outline_solid(w, h, r, style, depth) ==
    Extrude(create_outline_wire(w, h, r, style), depth)

-----------------------------------------------------------------------------
(* generate_sign: configurations *)

Styles    == {"concave", "rounded", "none"}
LineTexts == {"", "A"}          \* a blank line, a line with text
IsBlank(l) == l = ""            \* not l.strip()

SeqsUpTo(S, n) == UNION {[1 .. k -> S] : k \in 0 .. n}

GenParams ==
    [lines         : SeqsUpTo(LineTexts, MaxLines),
     underline     : BOOLEAN,
     width         : {2, 2 * MaxHalf},
     height        : {2 * MaxHalf},
     thickness     : 1 .. MaxDepth,
     text_depth    : 1 .. MaxDepth,
     border_style  : Styles,
     corner_radius : {0, MaxR},
     border_offset : 0 .. MaxOff,
     border_width  : 0 .. MaxBW]

\* What the font renderer does with one text() call: it raises, or it
\* returns glyphs.  Two glyph footprints stand for what it can return: one
\* right of the centre line, one running past the plate edge.
RenderOutcomes == {"raise", "narrow", "wide"}

\* [i for i, l in enumerate(line_texts) if l.strip()]
non_empty_indices(lines) == {i \in 1 .. Len(lines) : ~IsBlank(lines[i])}

\* The k-th non-blank line (k = 1 is the top line) lies in row RowOf(k).
RowOf(k) == LET y == GridHalf + 1 - k IN IF y <= 0 THEN y - 1 ELSE y

RankOf(idx, i) == Cardinality({j \in idx : j <= i})

\* cq.Workplane("XY").center(0, y).text(text, font_size, text_depth, ...)
TextCells(outcome, row, depth) ==
    LET xs == IF outcome = "narrow" THEN {1}
              ELSE IF outcome = "wide" THEN {x \in Axis : x >= -1}
              ELSE {}
    IN  {c \in Axis \X Axis \X (0 .. depth - 1) : c[1] \in xs /\ c[2] = row}

\* cq.Workplane("XY").center(0, ul_y).rect(text_w, ul_thickness).extrude(text_depth)
UnderlineCells(row, depth) ==
    {c \in Axis \X Axis \X (0 .. depth - 1) : c[1] \in {-1, 1} /\ c[2] = row}

\* _create_text_solids(params), render[i] being the renderer's outcome for
\* line i.  A text() that raises is skipped; the underline is still drawn.
create_text_solids(p, render) ==
    LET idx == non_empty_indices(p.lines)
        textOf(i) == IF render[i] = "raise" THEN {}
                     ELSE {TextCells(render[i], RowOf(RankOf(idx, i)), p.text_depth)}
        ulOf(i)   == IF p.underline
                     THEN {UnderlineCells(RowOf(RankOf(idx, i)), p.text_depth)}
                     ELSE {}
        solids    == UNION {textOf(i) \cup ulOf(i) : i \in idx}
    IN  IF idx = {} THEN None
        ELSE IF solids = {} THEN None
        ELSE Solid(UNION solids)

\* The renderer outcomes _create_text_solids can meet for these lines
Renderings(p) ==
    [1 .. Len(p.lines) ->  RenderOutcomes]

\* A frame whose inner edge is offset by the border width alone
primary_frame_inner_from_edge(p) ==
    LET wire1 == create_outline_wire(p.width, p.height, p.corner_radius, p.border_style)
        outer_solid == Extrude(Offset2D(wire1, p.border_offset), p.text_depth)
        wire2 == create_outline_wire(p.width, p.height, p.corner_radius, p.border_style)
        inner_solid == Extrude(Offset2D(wire2, p.border_width), p.text_depth)
    IN  Solid(outer_solid \ inner_solid)

\* _create_border_frame(params): the primary, constant-distance frame
primary_frame(p) ==
    LET wire1 == create_outline_wire(p.width, p.height, p.corner_radius, p.border_style)
        outer_solid == Extrude(Offset2D(wire1, p.border_offset), p.text_depth)
        wire2 == create_outline_wire(p.width, p.height, p.corner_radius, p.border_style)
        inner_solid == Extrude(Offset2D(wire2, p.border_offset + p.border_width),
                               p.text_depth)
    IN  Solid(outer_solid \ inner_solid)

NoWire == Wire("none", 0, 0, 0)

\* the except block of _create_border_frame: which solids it builds, from
\* which outlines.  result: "None", "outer_s" (return outer_s) or "cut"
\* (return outer_s.cut(inner_s)).
fallback_border(w, h, r, off, bw, style) ==
    LET outer_w == w - 2 * off
        outer_h == h - 2 * off
        outer_r == Max(0, r - off)
        inner_w == outer_w - 2 * bw
        inner_h == outer_h - 2 * bw
        inner_r == Max(0, outer_r - bw)
    IN  IF outer_w <= 0 \/ outer_h <= 0
        THEN [result |-> "None", outer |-> NoWire, inner |-> NoWire]
        ELSE IF inner_w <= 0 \/ inner_h <= 0
        THEN [result |-> "outer_s",
              outer  |-> create_outline_wire(outer_w, outer_h, outer_r, style),
              inner  |-> NoWire]
        ELSE [result |-> "cut",
              outer  |-> create_outline_wire(outer_w, outer_h, outer_r, style),
              inner  |-> create_outline_wire(inner_w, inner_h, inner_r, style)]

\* the except block of _create_border_frame, as a solid
fallback_frame(p) ==
    LET fb == fallback_border(p.width, p.height, p.corner_radius,
                              p.border_offset, p.border_width, p.border_style)
    IN  IF fb.result = "None" THEN None
        ELSE IF fb.result = "outer_s" THEN Solid(Extrude(fb.outer, p.text_depth))
        ELSE Solid(Extrude(fb.outer, p.text_depth) \ Extrude(fb.inner, p.text_depth))

\* Does _create_border_frame return before its try block?
border_skipped(p) ==
    \/ p.border_style = "none" \/ p.border_width <= 0
    \/ (p.border_offset <= 0 /\ p.border_width <= 0)

-----------------------------------------------------------------------------
(* generate_sign: the pass, one action per statement group *)

BorderResult(ret, failed, raised) ==
    [ret |-> ret, failed |-> failed, raised |-> raised]

\* A handler that lets the primary failure escape
create_border_frame_nocatch(p, primary_raises, fallback_raises) ==
    IF border_skipped(p) THEN BorderResult(None, FALSE, "none")
    ELSE IF ~primary_raises THEN BorderResult(primary_frame(p), FALSE, "none")
    ELSE BorderResult(None, TRUE, "primary")

\* _create_border_frame(params).  primary_raises: offset2D, extrude or cut of
\* the try block raises.  fallback_raises: a kernel call of the except block
\* raises; nothing catches that one.
create_border_frame(p, primary_raises, fallback_raises) ==
    IF border_skipped(p) THEN BorderResult(None, FALSE, "none")
    ELSE IF ~primary_raises THEN BorderResult(primary_frame(p), FALSE, "none")
    ELSE IF p.width - 2 * p.border_offset <= 0 \/ p.height - 2 * p.border_offset <= 0
         THEN BorderResult(None, TRUE, "none")
    ELSE IF fallback_raises THEN BorderResult(None, TRUE, "fallback")
    ELSE BorderResult(fallback_frame(p), TRUE, "none")

GenLogInit == [primary_failed |-> FALSE, warnings |-> 0, raised |-> "none"]

\* plate = _create_outline_solid(width, height, corner_radius, style, thickness)
GenPlate ==
    /\ gpc = "start"
    /\ UNCHANGED <<expVars, geoVars, layVars>>
    /\ plate' = Solid(create_outline_solid(params.width, params.height,
                          params.corner_radius, params.border_style, params.thickness))
    /\ gpc' = "text"
    /\ UNCHANGED <<params, text_solids, border, black_combined, black_piece,
                   white_piece, cut_tool, glog>>

\* text_solids = _create_text_solids(params)
GenText ==
    /\ gpc = "text"
    /\ UNCHANGED <<expVars, geoVars, layVars>>
    /\ \E render \in Renderings(params) :
          text_solids' = create_text_solids(params, render)
    /\ gpc' = "border"
    /\ UNCHANGED <<params, plate, border, black_combined, black_piece,
                   white_piece, cut_tool, glog>>

\* border = _create_border_frame(params)
GenBorder ==
    /\ gpc = "border"
    /\ UNCHANGED <<expVars, geoVars, layVars>>
    /\ \E primary_raises \in BOOLEAN, fallback_raises \in BOOLEAN :
          LET res == create_border_frame(params, primary_raises, fallback_raises)
          IN  /\ border' = res.ret
              /\ glog' = [primary_failed |-> res.failed,
                          warnings       |-> IF res.failed THEN 1 ELSE 0,
                          raised         |-> res.raised]
              /\ gpc' = IF res.raised = "none" THEN "parts" ELSE "raised"
    /\ UNCHANGED <<params, plate, text_solids, black_combined, black_piece,
                   white_piece, cut_tool>>

\* A collection that forgets the border
black_parts_text_only == IF text_solids.some THEN {text_solids.cells} ELSE {}

\* black_parts as generate_sign collects them
black_parts == (IF text_solids.some THEN {text_solids.cells} ELSE {})
               \cup (IF border.some THEN {border.cells} ELSE {})

\* if not black_parts: return None, plate
GenReturnPlain ==
    /\ gpc = "parts"
    /\ UNCHANGED <<expVars, geoVars, layVars>>
    /\ black_parts = {}
    /\ black_piece' = None
    /\ white_piece' = plate
    /\ gpc' = "done"
    /\ UNCHANGED <<params, plate, text_solids, border, black_combined, cut_tool, glog>>

\* black_combined = black_parts[0].union(...)
GenCombine ==
    /\ gpc = "parts"
    /\ UNCHANGED <<expVars, geoVars, layVars>>
    /\ black_parts # {}
    /\ black_combined' = Solid(UNION black_parts)
    /\ gpc' = "mirror"
    /\ UNCHANGED <<params, plate, text_solids, border, black_piece, white_piece,
                   cut_tool, glog>>

\* black_piece = black_combined.mirror("YZ")
GenMirror ==
    /\ gpc = "mirror"
    /\ UNCHANGED <<expVars, geoVars, layVars>>
    /\ black_piece' = Solid(MirrorYZ(black_combined.cells))
    /\ gpc' = "cut"
    /\ UNCHANGED <<params, plate, text_solids, border, black_combined, white_piece,
                   cut_tool, glog>>

\* A cut that uses the combination as it was before the mirror
CutOperandUnmirrored == black_combined

\* the operand of plate.cut(...)
CutOperand == black_piece

\* white_piece = plate.cut(black_piece); return black_piece, white_piece
GenCut ==
    /\ gpc = "cut"
    /\ UNCHANGED <<expVars, geoVars, layVars>>
    /\ cut_tool' = CutOperand
    /\ white_piece' = Solid(plate.cells \ CutOperand.cells)
    /\ gpc' = "done"
    /\ UNCHANGED <<params, plate, text_solids, border, black_combined, black_piece, glog>>

NextGenerate ==
    \/ GenPlate
    \/ GenText
    \/ GenBorder
    \/ GenReturnPlain
    \/ GenCombine
    \/ GenMirror
    \/ GenCut

-----------------------------------------------------------------------------
(* Export: MainWindow._on_export, ExportThread.run, the signal handlers *)

MaxRuns  == 2   \* most exports started in one behaviour
MaxPanel == 2   \* distinct parameter sets the user can dial in

PanelValues == 1 .. MaxPanel

\* QFileDialog.getSaveFileName in the n-th export, as directory, stem and
\* extension: the user accepts the path the dialog offers the first time and
\* types another one, with an extension, afterwards
SaveChoice(n) ==
    IF n = 1 THEN [dir |-> "Desktop", stem |-> "namesign", ext |-> ""]
    ELSE [dir |-> "out", stem |-> "sign", ext |-> ".stl"]

\* str(Path(output_dir) / f"{prefix}{suffix}") and f"{params.output}{suffix}"
FileName(dir, prefix, suffix) == [dir |-> dir, prefix |-> prefix, suffix |-> suffix]

\* black_file = "": the empty string run() reports when there is no black piece
NoFile == FileName("", "", "")

Progress(t, text) == [sig |-> "progress", thread |-> t, text |-> text, black_file |-> NoFile, white_file |-> NoFile]
Finished(t, bf, wf) == [sig |-> "finished", thread |-> t, text |-> "", black_file |-> bf, white_file |-> wf]
Error(t, text) == [sig |-> "error", thread |-> t, text |-> text, black_file |-> NoFile, white_file |-> NoFile]

\* self.params of thread t, as ExportThread.__init__ stored it
ThreadParams(t) == threads[t].params

\* ExportThread(params, output_dir, prefix); start()
NewThread(p, output_dir, prefix) ==
    [params   |-> p,            \* self.params
     output_dir |-> output_dir, \* self.output_dir
     prefix   |-> prefix,       \* self.prefix
     snapshot |-> p,            \* history: the panel when the export started
     pc       |-> "import",     \* position in run()
     running  |-> TRUE,         \* QThread.isRunning()
     used     |-> 0,            \* history: the parameters generate_sign was given
     black    |-> FALSE,        \* black is not None
     files    |-> {},           \* files export_stl has written
     emitted  |-> << >>]        \* history: the signals of this run, in order

\* run(): black_file as computed before the export, with the prefix left out
black_file_unprefixed(t) == FileName(threads[t].output_dir, "", "_black.stl")

\* run(): black_file = str(Path(self.output_dir) / f"{self.prefix}_black.stl")
black_file(t) == FileName(threads[t].output_dir, threads[t].prefix, "_black.stl")

\* run(): white_file = str(Path(self.output_dir) / f"{self.prefix}_white.stl")
white_file(t) == FileName(threads[t].output_dir, threads[t].prefix, "_white.stl")

\* self.export_thread is not None and self.export_thread.isRunning()
export_thread_running ==
    Len(threads) > 0 /\ threads[Len(threads)].running

\* An _on_export without the isRunning guard
on_export_guard_missing == FALSE

\* the early return at the top of _on_export
on_export_guard == export_thread_running

Emit(t, msgs) ==
    /\ queue' = queue \o msgs
    /\ UNCHANGED <<panel, export_btn, ui>>

\* A parameter widget changes: _on_changed -> _update_preview
EditPanel ==
    /\ UNCHANGED <<genVars, geoVars, layVars>>
    /\ \E v \in PanelValues \ {panel} :
          /\ panel' = v
          /\ ui' = [ui EXCEPT !.preview = v]
    /\ UNCHANGED <<export_btn, threads, queue>>

\* _on_export, up to a return that starts nothing: the thread still runs, or
\* the file dialog was cancelled
OnExportReturn ==
    /\ UNCHANGED <<genVars, geoVars, layVars>>
    /\ export_btn
    /\ UNCHANGED <<panel, export_btn, threads, queue, ui>>

\* _on_export, file chosen: snapshot the parameters, take the directory and
\* the stem of the chosen path, disable the button, create and start the thread
OnExportStart ==
    /\ UNCHANGED <<genVars, geoVars, layVars>>
    /\ export_btn
    /\ ~on_export_guard
    /\ Len(threads) < MaxRuns
    /\ export_btn' = FALSE
    /\ ui' = [ui EXCEPT !.status = "Generating..."]
    /\ LET file_path == SaveChoice(Len(threads) + 1)
       IN  threads' = Append(threads, NewThread(panel, file_path.dir, file_path.stem))
    /\ UNCHANGED <<panel, queue>>

AtStep(t, pc) == t \in 1 .. Len(threads) /\ threads[t].pc = pc

\* run(): progress "Importing CadQuery...", from namesign import ...
RunImport(t) ==
    /\ UNCHANGED <<genVars, geoVars, layVars>>
    /\ AtStep(t, "import")
    /\ \E ok \in BOOLEAN :
          LET msgs == IF ok THEN <<Progress(t, "Importing CadQuery...")>>
                      ELSE <<Progress(t, "Importing CadQuery..."), Error(t, "import")>>
          IN  /\ threads' = [threads EXCEPT ![t].pc = IF ok THEN "generate" ELSE "returned",
                                            ![t].emitted = @ \o msgs]
              /\ Emit(t, msgs)

\* run(): progress "Generating geometry...", generate_sign(self.params)
RunGenerate(t) ==
    /\ UNCHANGED <<genVars, geoVars, layVars>>
    /\ AtStep(t, "generate")
    /\ \E outcome \in {"raise", "black", "noblack"} :
          LET msgs == IF outcome = "raise"
                      THEN <<Progress(t, "Generating geometry..."), Error(t, "generate")>>
                      ELSE <<Progress(t, "Generating geometry...")>>
          IN  /\ threads' = [threads EXCEPT
                    ![t].pc = CASE outcome = "raise"   -> "returned"
                                [] outcome = "black"   -> "export_black"
                                [] outcome = "noblack" -> "export_white",
                    ![t].used = ThreadParams(t),
                    ![t].black = (outcome = "black"),
                    ![t].emitted = @ \o msgs]
              /\ Emit(t, msgs)

\* run(): progress "Exporting black piece...", export_stl(black, black_file)
RunExportBlack(t) ==
    /\ UNCHANGED <<genVars, geoVars, layVars>>
    /\ AtStep(t, "export_black")
    /\ \E ok \in BOOLEAN :
          LET msgs == IF ok THEN <<Progress(t, "Exporting black piece...")>>
                      ELSE <<Progress(t, "Exporting black piece..."), Error(t, "export black")>>
          IN  /\ threads' = [threads EXCEPT
                    ![t].pc = IF ok THEN "export_white" ELSE "returned",
                    ![t].files = IF ok THEN @ \cup {black_file(t)} ELSE @,
                    ![t].emitted = @ \o msgs]
              /\ Emit(t, msgs)

\* run(): progress "Exporting white piece...", export_stl(white, white_file)
RunExportWhite(t) ==
    /\ UNCHANGED <<genVars, geoVars, layVars>>
    /\ AtStep(t, "export_white")
    /\ \E ok \in BOOLEAN :
          LET msgs == IF ok THEN <<Progress(t, "Exporting white piece...")>>
                      ELSE <<Progress(t, "Exporting white piece..."), Error(t, "export white")>>
          IN  /\ threads' = [threads EXCEPT
                    ![t].pc = IF ok THEN "emit_finished" ELSE "returned",
                    ![t].files = IF ok THEN @ \cup {white_file(t)} ELSE @,
                    ![t].emitted = @ \o msgs]
              /\ Emit(t, msgs)

\* A run that also reports an error after its success
FinishedSignalsTwice(t) ==
    <<Finished(t, IF threads[t].black THEN black_file(t) ELSE NoFile, white_file(t)),
      Error(t, "late")>>

\* A run that reports one more stage after its success
FinishedSignalsThenProgress(t) ==
    <<Finished(t, IF threads[t].black THEN black_file(t) ELSE NoFile, white_file(t)),
      Progress(t, "Done")>>

\* what run() emits once both exports are through
FinishedSignals(t) ==
    <<Finished(t, IF threads[t].black THEN black_file(t) ELSE NoFile, white_file(t))>>

\* run(): self.finished.emit(black_file, white_file)
RunEmitFinished(t) ==
    /\ UNCHANGED <<genVars, geoVars, layVars>>
    /\ AtStep(t, "emit_finished")
    /\ threads' = [threads EXCEPT ![t].pc = "returned",
                                  ![t].emitted = @ \o FinishedSignals(t)]
    /\ Emit(t, FinishedSignals(t))

\* run() has returned; Qt ends the thread and isRunning() turns false
ThreadExit(t) ==
    /\ UNCHANGED <<genVars, geoVars, layVars>>
    /\ AtStep(t, "returned")
    /\ threads' = [threads EXCEPT ![t].pc = "exited", ![t].running = FALSE]
    /\ UNCHANGED <<panel, export_btn, queue, ui>>

\* _on_export_progress(msg)
OnExportProgress ==
    /\ UNCHANGED <<genVars, geoVars, layVars>>
    /\ queue # << >> /\ Head(queue).sig = "progress"
    /\ ui' = [ui EXCEPT !.status = Head(queue).text]
    /\ queue' = Tail(queue)
    /\ UNCHANGED <<panel, export_btn, threads>>

\* _on_export_finished(black_file, white_file): "if black_file:" lists the
\* black path, the white path is always listed
OnExportFinished ==
    /\ UNCHANGED <<genVars, geoVars, layVars>>
    /\ queue # << >> /\ Head(queue).sig = "finished"
    /\ export_btn' = TRUE
    /\ ui' = [ui EXCEPT !.status = "Export complete!",
                        !.box = [kind |-> "information",
                                 black |-> IF Head(queue).black_file # NoFile
                                           THEN Head(queue).black_file ELSE NoFile,
                                 white |-> Head(queue).white_file]]
    /\ queue' = Tail(queue)
    /\ UNCHANGED <<panel, threads>>

\* _on_export_error(error_msg)
OnExportError ==
    /\ UNCHANGED <<genVars, geoVars, layVars>>
    /\ queue # << >> /\ Head(queue).sig = "error"
    /\ export_btn' = TRUE
    /\ ui' = [ui EXCEPT !.status = "Export failed",
                        !.box = [kind |-> "critical", black |-> NoFile, white |-> NoFile]]
    /\ queue' = Tail(queue)
    /\ UNCHANGED <<panel, threads>>

\* main(), after generate_sign returned: the files written and the lines
\* printed for a given --output and a black piece that is present or None
main(output, black) ==
    [files   |-> (IF black THEN {FileName("", output, "_black.stl")} ELSE {})
                 \cup {FileName("", output, "_white.stl")},
     printed |-> <<IF black THEN [text |-> "Exported", file |-> FileName("", output, "_black.stl")]
                   ELSE [text |-> "No black piece (no text or border)", file |-> NoFile],
                   [text |-> "Exported", file |-> FileName("", output, "_white.stl")],
                   [text |-> "Done!", file |-> NoFile]>>]

NextExport ==
    \/ EditPanel
    \/ OnExportReturn
    \/ OnExportStart
    \/ \E t \in 1 .. MaxRuns : RunImport(t)
    \/ \E t \in 1 .. MaxRuns : RunGenerate(t)
    \/ \E t \in 1 .. MaxRuns : RunExportBlack(t)
    \/ \E t \in 1 .. MaxRuns : RunExportWhite(t)
    \/ \E t \in 1 .. MaxRuns : RunEmitFinished(t)
    \/ \E t \in 1 .. MaxRuns : ThreadExit(t)
    \/ OnExportProgress
    \/ OnExportFinished
    \/ OnExportError

-----------------------------------------------------------------------------
(* 2D geometry of the preview: exact arithmetic with s = sqrt(R*R - d*d)   *)

\* A coordinate a + b*s, where s is the square root of the path's `root`.
Z(a, b) == [a |-> a, b |-> b]
ZAdd(u, v) == Z(u.a + v.a, u.b + v.b)
ZSub(u, v) == Z(u.a - v.a, u.b - v.b)
ZMul(u, v, N) == Z(u.a * v.a + u.b * v.b * N, u.a * v.b + u.b * v.a)
\* a + b*sqrt(N) > 0
ZPos(u, N) ==
    \/ u.a > 0 /\ u.b >= 0
    \/ u.a >= 0 /\ u.b > 0 /\ N > 0
    \/ u.a < 0 /\ u.b > 0 /\ u.b * u.b * N > u.a * u.a
    \/ u.a > 0 /\ u.b < 0 /\ u.a * u.a > u.b * u.b * N
ZEq(u, v, N) == ~ZPos(ZSub(u, v), N) /\ ~ZPos(ZSub(v, u), N)
Pt(x, y) == [x |-> x, y |-> y]
PtEq(p, q, N) == ZEq(p.x, q.x, N) /\ ZEq(p.y, q.y, N)
\* squared distance of two points
Dist2(p, q, N) ==
    LET dx == ZSub(p.x, q.x)
        dy == ZSub(p.y, q.y)
    IN  ZAdd(ZMul(dx, dx, N), ZMul(dy, dy, N))

\* k <= sqrt(N), for N >= 0
LeRoot(k, N) == k <= 0 \/ k * k <= N

\* A junction offset taken as R - d instead of sqrt(R*R - d*d)
JunctionOffsetLinear(R, d) == Z(R - d, 0)

\* s = math.sqrt(R * R - d * d), as a coordinate
JunctionOffset(R, d) == Z(0, 1)

EmptyPath == [kind |-> "empty", rect |-> <<0, 0, 0, 0>>, root |-> 0, elems |-> << >>]
\* path.addRect(QRectF(x, y, w, h))
RectPath(x, y, w, h) == [kind |-> "rect", rect |-> <<x, y, w, h>>, root |-> 0, elems |-> << >>]

MoveTo(p) == [op |-> "moveTo", to |-> p, c |-> p, R |-> 0, from |-> p,
              on_circle |-> TRUE, sweep |-> "none"]
LineTo(p) == [op |-> "lineTo", to |-> p, c |-> p, R |-> 0, from |-> p,
              on_circle |-> TRUE, sweep |-> "none"]

\* _add_offset_arc(path, cx, cy, R, x1, y1, x2, y2, n_seg): n_seg points on the
\* circle (cx, cy, R), from the direction of (x1, y1) to the direction of
\* (x2, y2).  The last point is (x2, y2) exactly when (x2, y2) is on the
\* circle; the first chord starts at (x1, y1) exactly when (x1, y1) is.
\* delta = a2 - a1, less 2*pi when positive: a quarter turn or less when the
\* turn from 1 to 2 is clockwise, the long way round otherwise.
add_offset_arc(c, R, p1, p2, N) ==
    LET v1 == Pt(ZSub(p1.x, c.x), ZSub(p1.y, c.y))
        v2 == Pt(ZSub(p2.x, c.x), ZSub(p2.y, c.y))
        \* cross(v2, v1) > 0: direction 2 is clockwise of direction 1
        cross == ZSub(ZMul(v2.x, v1.y, N), ZMul(v2.y, v1.x, N))
    IN  [op |-> "arc", to |-> p2, c |-> c, R |-> R, from |-> p1,
         on_circle |-> /\ ZEq(Dist2(p1, c, N), Z(R * R, 0), N)
                       /\ ZEq(Dist2(p2, c, N), Z(R * R, 0), N),
         sweep |-> IF ZPos(cross, N) THEN "short"
                   ELSE IF ~ZEq(cross, Z(0, 0), N) THEN "long"
                   ELSE IF ZPos(ZAdd(ZMul(v1.x, v2.x, N), ZMul(v1.y, v2.y, N)), N)
                        THEN "zero" ELSE "half"]

ClosePath == [op |-> "close", to |-> Pt(Z(0, 0), Z(0, 0)), c |-> Pt(Z(0, 0), Z(0, 0)),
              R |-> 0, from |-> Pt(Z(0, 0), Z(0, 0)), on_circle |-> TRUE, sweep |-> "none"]

\* the curve of the non-degenerate case, lines 78-105
offset_concave_curve(hw, hh, R, d, N) ==
    LET s   == JunctionOffset(R, d)
        n(k)  == Z(k, 0)
        xl  == ZAdd(n(-hw), s)     \* -hw + s
        xr  == ZSub(n(hw), s)      \*  hw - s
        yb  == ZAdd(n(-hh), s)     \* -hh + s
        yt  == ZSub(n(hh), s)      \*  hh - s
    IN  [kind |-> "curve", rect |-> <<0, 0, 0, 0>>, root |-> N, elems |->
         << MoveTo(Pt(xl, n(-hh + d))),
            LineTo(Pt(xr, n(-hh + d))),
            add_offset_arc(Pt(n(hw), n(-hh)), R, Pt(xr, n(-hh + d)), Pt(n(hw - d), yb), N),
            LineTo(Pt(n(hw - d), yt)),
            add_offset_arc(Pt(n(hw), n(hh)), R, Pt(n(hw - d), yt), Pt(xr, n(hh - d)), N),
            LineTo(Pt(xl, n(hh - d))),
            add_offset_arc(Pt(n(-hw), n(hh)), R, Pt(xl, n(hh - d)), Pt(n(-hw + d), yt), N),
            LineTo(Pt(n(-hw + d), yb)),
            add_offset_arc(Pt(n(-hw), n(-hh)), R, Pt(n(-hw + d), yb), Pt(xl, n(-hh + d)), N),
            ClosePath >>]

InsetRect(hw, hh, d) == RectPath(-(hw - d), -(hh - d), 2 * (hw - d), 2 * (hh - d))

\* A builder without the check that the edges have positive length
build_offset_concave_path_noedgecheck(hw, hh, r, d) ==
    LET R == r + d
    IN  IF hw <= d \/ hh <= d \/ R <= 0
        THEN IF hw > d /\ hh > d THEN InsetRect(hw, hh, d) ELSE EmptyPath
        ELSE IF d >= R THEN InsetRect(hw, hh, d)
        ELSE offset_concave_curve(hw, hh, R, d, R * R - d * d)

\* _build_offset_concave_path(hw, hh, r, d)
build_offset_concave_path(hw, hh, r, d) ==
    LET R == r + d
    IN  IF hw <= d \/ hh <= d \/ R <= 0
        THEN IF hw > d /\ hh > d THEN InsetRect(hw, hh, d) ELSE EmptyPath
        ELSE IF d >= R THEN InsetRect(hw, hh, d)
        ELSE IF LeRoot(hw, R * R - d * d) \/ LeRoot(hh, R * R - d * d)
             THEN InsetRect(hw, hh, d)
        ELSE offset_concave_curve(hw, hh, R, d, R * R - d * d)

-----------------------------------------------------------------------------
(* The preview's outline and border paths *)

\* PreviewWidget._build_outline_path(w, h, r, style)
build_outline_path(w, h, r, style) ==
    LET hw == w \div 2
        hh == h \div 2
    IN  IF style = "rounded" /\ r > Eps
        THEN Wire("rounded", w, h, Min3(r, hw - Eps, hh - Eps))
        ELSE IF style = "concave" /\ r > Eps
        THEN Wire("concave", w, h, Min3(r, hw - Eps, hh - Eps))
        ELSE Wire("rect", w, h, 0)

\* PreviewWidget._build_border_paths(p)
build_border_paths(w, h, r, off, bw, style) ==
    LET hw == w \div 2
        hh == h \div 2
        r_clamped == Min3(r, hw - Eps, hh - Eps)
        outer_w == w - 2 * off
        outer_h == h - 2 * off
        outer_r == Max(0, r - off)
        inner_w == outer_w - 2 * bw
        inner_h == outer_h - 2 * bw
        inner_r == Max(0, outer_r - bw)
    IN  IF style = "concave" /\ r > Eps
        THEN [mode |-> "offset", has_inner |-> TRUE,
              outer_path |-> build_offset_concave_path(hw, hh, r_clamped, off),
              inner_path |-> build_offset_concave_path(hw, hh, r_clamped, off + bw),
              outer |-> NoWire, inner |-> NoWire]
        ELSE [mode |-> "dims", has_inner |-> inner_w > 0 /\ inner_h > 0,
              outer_path |-> EmptyPath, inner_path |-> EmptyPath,
              outer |-> build_outline_path(outer_w, outer_h, outer_r, style),
              inner |-> IF inner_w > 0 /\ inner_h > 0
                        THEN build_outline_path(inner_w, inner_h, inner_r, style)
                        ELSE NoWire]

\* QPainterPath.isEmpty(): addRect and addRoundedRect add nothing for a null
\* (0 x 0) rectangle
WireIsEmpty(wire) == wire.w = 0 /\ wire.h = 0
PathIsEmpty(path) == path.kind = "empty"

\* paintEvent, "Draw border frame": what is filled in black
\*   "nothing", "outer" (the outer path, filled) or "frame" (outer - inner)
paint_border(w, h, r, off, bw, style) ==
    LET b == build_border_paths(w, h, r, off, bw, style)
        outer_empty == IF b.mode = "offset" THEN PathIsEmpty(b.outer_path)
                       ELSE WireIsEmpty(b.outer)
        inner_empty == IF b.mode = "offset" THEN PathIsEmpty(b.inner_path)
                       ELSE ~b.has_inner \/ WireIsEmpty(b.inner)
    IN  [paths |-> b,
         drawn |-> IF w <= 0 \/ h <= 0 THEN "nothing"     \* the early return
                   ELSE IF style = "none" \/ bw <= 0 THEN "nothing"
                   ELSE IF outer_empty THEN "nothing"
                   ELSE IF inner_empty THEN "outer"
                   ELSE "frame"]

\* the dimensions and radii of a border's outer and inner edge
BorderDims(outer_w, outer_h, outer_r, inner_w, inner_h, inner_r) ==
    [outer_w |-> outer_w, outer_h |-> outer_h, outer_r |-> outer_r,
     inner_w |-> inner_w, inner_h |-> inner_h, inner_r |-> inner_r]

\* the except block of _create_border_frame: outer_w ... inner_r
fallback_border_dims(w, h, r, off, bw) ==
    LET outer_w == w - 2 * off
        outer_h == h - 2 * off
        outer_r == Max(0, r - off)
        inner_w == outer_w - 2 * bw
        inner_h == outer_h - 2 * bw
        inner_r == Max(0, outer_r - bw)
    IN  BorderDims(outer_w, outer_h, outer_r, inner_w, inner_h, inner_r)

\* A preview whose inner edge keeps the outer edge's radius
preview_border_dims_same_radius(w, h, r, off, bw) ==
    BorderDims(w - 2 * off, h - 2 * off, Max(0, r - off),
               w - 2 * off - 2 * bw, h - 2 * off - 2 * bw, Max(0, r - off))

\* _build_border_paths, the else branch: outer_w ... inner_r
preview_border_dims(w, h, r, off, bw) ==
    LET outer_w == w - 2 * off
        outer_h == h - 2 * off
        outer_r == Max(0, r - off)
        inner_w == outer_w - 2 * bw
        inner_h == outer_h - 2 * bw
        inner_r == Max(0, outer_r - bw)
    IN  BorderDims(outer_w, outer_h, outer_r, inner_w, inner_h, inner_r)

-----------------------------------------------------------------------------
(* SpecGeometry: the functions above applied to bounded inputs *)

MaxGeoHalf == 4   \* largest small half-width / half-height tried
MaxGeoR    == 3   \* largest small corner radius tried
MaxGeoD    == 2   \* largest small border offset tried
MaxGeoBW   == 2   \* largest small border width tried

\* small values, and the lengths of the documented cases: 180 x 120 mm with
\* r = 12 mm, d = 6 mm, and 40 x 20 mm (the panel's smallest plate) with
\* r = 100 mm, with offsets of 8 and 12 mm and a 2 mm border
GeoHalves == (0 .. MaxGeoHalf) \cup {100, 200, 600, 900}
GeoRadii  == (-1 .. MaxGeoR) \cup {120, 1000}
GeoDists  == (0 .. MaxGeoD) \cup {60, 80, 120}
GeoWidths == (0 .. MaxGeoBW) \cup {20}

GeoInputs ==
    [hw : GeoHalves, hh : GeoHalves, r : GeoRadii, off : GeoDists,
     bw : GeoWidths, style : Styles]

GeoIdle == [fn |-> "none"]
LayIdle == [fn |-> "none"]

\* _create_outline_wire(w, h, r, style)
ApplyOutlineWire ==
    /\ UNCHANGED <<genVars, expVars, layVars>>
    /\ geo.fn = "input"
    /\ LET in == geo.in
       IN  geo' = [fn |-> "outline_wire", in |-> in,
                   rc |-> clamp_radius(in.r, 2 * in.hw, 2 * in.hh),
                   out |-> create_outline_wire(2 * in.hw, 2 * in.hh, in.r, in.style)]

\* _build_offset_concave_path(hw, hh, r, d), d = the border offset
ApplyOffsetConcavePath ==
    /\ UNCHANGED <<genVars, expVars, layVars>>
    /\ geo.fn = "input"
    /\ LET in == geo.in
       IN  geo' = [fn |-> "offset_concave_path", in |-> in,
                   out |-> build_offset_concave_path(in.hw, in.hh, in.r, in.off)]

\* _create_border_frame(params), the except block
ApplyFallbackBorder ==
    /\ UNCHANGED <<genVars, expVars, layVars>>
    /\ geo.fn = "input"
    /\ LET in == geo.in
       IN  /\ in.style # "none" /\ in.bw > 0
           /\ geo' = [fn |-> "fallback_border", in |-> in,
                      out |-> fallback_border(2 * in.hw, 2 * in.hh, in.r, in.off,
                                              in.bw, in.style)]

\* paintEvent, "Draw border frame"; the panel's spin boxes keep the corner
\* radius from going negative
ApplyPaintBorder ==
    /\ UNCHANGED <<genVars, expVars, layVars>>
    /\ geo.fn = "input"
    /\ LET in == geo.in
       IN  /\ in.r >= 0
           /\ geo' = [fn |-> "paint_border", in |-> in,
                      out |-> paint_border(2 * in.hw, 2 * in.hh, in.r, in.off,
                                           in.bw, in.style)]

\* PreviewWidget._build_outline_path(w, h, r, style), next to the wire
\* _create_outline_wire builds from the same arguments
ApplyOutlinePath ==
    /\ UNCHANGED <<genVars, expVars, layVars>>
    /\ geo.fn = "input"
    /\ LET in == geo.in
       IN  geo' = [fn |-> "outline_path", in |-> in,
                   out |-> build_outline_path(2 * in.hw, 2 * in.hh, in.r, in.style),
                   cad |-> create_outline_wire(2 * in.hw, 2 * in.hh, in.r, in.style)]

\* the dimension-based border of one configuration, in the except block
\* of _create_border_frame and in the else branch of _build_border_paths:
\* both are reached with a border wanted and the style 'rounded', or
\* 'concave' with a radius of at most 0.1
ApplyBorderDims ==
    /\ UNCHANGED <<genVars, expVars, layVars>>
    /\ geo.fn = "input"
    /\ LET in == geo.in
       IN  /\ in.style # "none" /\ in.bw > 0
           /\ ~(in.style = "concave" /\ in.r > Eps)
           /\ geo' = [fn |-> "border_dims", in |-> in,
                      cad |-> fallback_border_dims(2 * in.hw, 2 * in.hh, in.r,
                                                   in.off, in.bw),
                      out |-> preview_border_dims(2 * in.hw, 2 * in.hh, in.r,
                                                  in.off, in.bw)]

NextGeometry ==
    \/ ApplyOutlineWire
    \/ ApplyBorderDims
    \/ ApplyOutlinePath
    \/ ApplyOffsetConcavePath
    \/ ApplyFallbackBorder
    \/ ApplyPaintBorder

-----------------------------------------------------------------------------
(* Text layout: font sizing and line positions.  Plate lengths here are    *)
(* whole millimetres, the line spacing is in tenths, and sizes are exact   *)
(* fractions n / d with d > 0.  A text is a sequence of characters.        *)

Q(n, d) == [n |-> n, d |-> d]
\* n / d for integers, d # 0, with the sign carried by the numerator
QDiv(n, d) == IF d < 0 THEN Q(-n, -d) ELSE Q(n, d)
QLe(a, b) == a.n * b.d <= b.n * a.d
QLt(a, b) == a.n * b.d < b.n * a.d
QEq(a, b) == a.n * b.d = b.n * a.d
QMin(a, b) == IF QLe(a, b) THEN a ELSE b
QMax(a, b) == IF QLe(b, a) THEN a ELSE b

\* l.strip()
RECURSIVE LStrip(_)
LStrip(t) == IF t = << >> THEN t
             ELSE IF Head(t) = " " THEN LStrip(Tail(t)) ELSE t
RECURSIVE RStrip(_)
RStrip(t) == IF t = << >> THEN t
             ELSE IF t[Len(t)] = " " THEN RStrip(SubSeq(t, 1, Len(t) - 1)) ELSE t
Strip(t) == RStrip(LStrip(t))

\* StyledRun(text, bold, italic, underline)
StyledRun(text, bold, italic, underline) ==
    [text |-> text, bold |-> bold, italic |-> italic, underline |-> underline]

\* SignParams.styled_lines: None, or a list of lists of runs
NoStyledLines == [some |-> FALSE, runs |-> << >>]
StyledLines(sl) == [some |-> TRUE, runs |-> sl]

\* "".join(run.text for run in runs)
RECURSIVE JoinRuns(_)
JoinRuns(runs) == IF runs = << >> THEN << >>
                  ELSE Head(runs).text \o JoinRuns(Tail(runs))

\* _get_line_texts(params)
get_line_texts_plain(p) == p.lines
get_line_texts(p) ==
    IF p.styled_lines.some
    THEN [i \in 1 .. Len(p.styled_lines.runs) |-> JoinRuns(p.styled_lines.runs[i])]
    ELSE p.lines

\* CHAR_WIDTH_RATIO = 0.55 = 11 / 20
CharWidthNum == 11
CharWidthDen == 20

\* the loop of auto_font_sizes that caps the size by every non-blank line
RECURSIVE cap_by_lines(_, _, _)
cap_by_lines(uniform, lines, available_w) ==
    IF lines = << >> THEN uniform
    ELSE LET text == Strip(Head(lines))
         IN  IF text = << >>
             THEN cap_by_lines(uniform, Tail(lines), available_w)
             ELSE LET max_w == QDiv(available_w.n * CharWidthDen,
                                    available_w.d * Len(text) * CharWidthNum)
                  IN  cap_by_lines(QMin(uniform, max_w), Tail(lines), available_w)

\* padding of auto_font_sizes
font_padding(p) ==
    IF p.border_style # "none" /\ p.border_width > 0
    THEN Q(p.border_offset + p.border_width + 3, 1)
    ELSE QMax(Q(p.corner_radius, 2), Q(4, 1))

Sizes(n, size) == [kind |-> "sizes", sizes |-> [i \in 1 .. n |-> size]]
Raises(error)  == [kind |-> "raise", error |-> error, sizes |-> << >>]

\* An auto_font_sizes that tests the available space before the blank lines
auto_font_sizes_space_first(p) ==
    LET lines == get_line_texts(p)
        n == Len(lines)
        pad == font_padding(p)
        available_w == Q(p.width * pad.d - 2 * pad.n, pad.d)
        available_h == Q(p.height * pad.d - 2 * pad.n, pad.d)
    IN  IF n = 0 THEN Sizes(0, Q(10, 1))
        ELSE IF available_w.n <= 0 \/ available_h.n <= 0 THEN Sizes(n, Q(5, 1))
        ELSE Sizes(n, Q(10, 1))

\* auto_font_sizes(params); line_spacing = ls10 / 10
auto_font_sizes(p) ==
    LET lines == get_line_texts(p)
        n == Len(lines)
        non_empty == {i \in 1 .. n : Strip(lines[i]) # << >>}
        pad == font_padding(p)
        available_w == Q(p.width * pad.d - 2 * pad.n, pad.d)
        available_h == Q(p.height * pad.d - 2 * pad.n, pad.d)
        n_text == Cardinality(non_empty)
        \* ten times 1 + (n_text - 1) * line_spacing
        den10 == 10 + (n_text - 1) * p.ls10
    IN  IF n = 0 THEN Sizes(0, Q(10, 1))
        ELSE IF non_empty = {} THEN Sizes(n, Q(10, 1))
        ELSE IF available_w.n <= 0 \/ available_h.n <= 0 THEN Sizes(n, Q(5, 1))
        ELSE IF den10 = 0 THEN Raises("ZeroDivisionError")
        ELSE LET base_size == QDiv(available_h.n * 10, available_h.d * den10)
             IN  Sizes(n, cap_by_lines(base_size, lines, available_w))

\* 20 * gap between lines i and i+1: (size_i / 2 + size_{i+1} / 2) * line_spacing
Gap20(sizes, i, ls10) == (sizes[i] + sizes[i + 1]) * ls10

RECURSIVE SumGaps20(_, _, _)
SumGaps20(sizes, k, ls10) ==
    IF k = 0 THEN 0 ELSE SumGaps20(sizes, k - 1, ls10) + Gap20(sizes, k, ls10)

\* _calc_line_positions(line_data, line_spacing): 40 * y for every line, top
\* line first; sizes[i] is line_data[i][1]
calc_line_positions(sizes, ls10) ==
    LET n == Len(sizes)
        total_span20 == SumGaps20(sizes, n - 1, ls10)
    IN  IF n = 0 THEN << >>
        ELSE IF n = 1 THEN <<0>>
        ELSE [k \in 1 .. n |-> total_span20 - 2 * SumGaps20(sizes, k - 1, ls10)]

-----------------------------------------------------------------------------
(* The parameter panel's text and the pieces of _create_text_solids *)

\* A fragment of a QTextDocument block: its text and character format
Fragment(text, bold, italic, underline) == StyledRun(text, bold, italic, underline)

\* ParameterPanel.get_styled_lines(): a document is a sequence of blocks, a
\* block a sequence of fragments
get_styled_lines(doc) ==
    [i \in 1 .. Len(doc) |->
        IF doc[i] = << >> THEN <<StyledRun(<< >>, FALSE, FALSE, FALSE)>>
        ELSE doc[i]]

\* ParameterPanel.get_params(): the text fields of the SignParams it builds
get_params(doc) ==
    LET styled_lines == get_styled_lines(doc)
        lines == [i \in 1 .. Len(styled_lines) |-> JoinRuns(styled_lines[i])]
    IN  IF \A i \in 1 .. Len(lines) : Strip(lines[i]) = << >>
        THEN [lines |-> << << >> >>,
              styled_lines |-> StyledLines(<< <<StyledRun(<< >>, FALSE, FALSE, FALSE)>> >>)]
        ELSE [lines |-> lines, styled_lines |-> StyledLines(styled_lines)]

\* A grouping that opens a new group for every run with text
RECURSIVE merge_groups_one_per_run(_, _)
merge_groups_one_per_run(groups, runs) ==
    IF runs = << >> THEN groups
    ELSE LET run == Head(runs)
         IN  IF run.text = << >> THEN merge_groups_one_per_run(groups, Tail(runs))
             ELSE merge_groups_one_per_run(
                    Append(groups, [text |-> run.text, bold |-> run.bold,
                                    italic |-> run.italic,
                                    runs |-> <<[text |-> run.text,
                                                underline |-> run.underline]>>]),
                    Tail(runs))

\* Merge consecutive runs with the same (bold, italic) into text groups;
\* runs with empty text are skipped
RECURSIVE merge_groups(_, _)
merge_groups(groups, runs) ==
    IF runs = << >> THEN groups
    ELSE LET run == Head(runs)
             k == Len(groups)
         IN  IF run.text = << >> THEN merge_groups(groups, Tail(runs))
             ELSE IF k > 0 /\ groups[k].bold = run.bold /\ groups[k].italic = run.italic
             THEN merge_groups(
                    [groups EXCEPT ![k].text = @ \o run.text,
                                   ![k].runs = Append(@, [text |-> run.text,
                                                          underline |-> run.underline])],
                    Tail(runs))
             ELSE merge_groups(
                    Append(groups, [text |-> run.text, bold |-> run.bold,
                                    italic |-> run.italic,
                                    runs |-> <<[text |-> run.text,
                                                underline |-> run.underline]>>]),
                    Tail(runs))

\* Does the font renderer raise for this text?  mode "none": never; "b": the
\* font cannot render the character b; "all": always
TextRaises(mode, text) ==
    \/ mode = "all"
    \/ mode = "b" /\ \E i \in 1 .. Len(text) : text[i] = "b"

TextPiece(line, group, text) ==
    [kind |-> "text", line |-> line, group |-> group, run |-> 0, text |-> text]
UnderlinePiece(line, group, run, text) ==
    [kind |-> "underline", line |-> line, group |-> group, run |-> run, text |-> text]
Warning(line, group, text) ==
    [kind |-> "warning", line |-> line, group |-> group, run |-> 0, text |-> text]

\* A try block that lets a placeholder stand in for the text that failed
try_text_placeholder(mode, line, group, text) ==
    <<TextPiece(line, group, text)>>

\* try: solids.append(text solid)  except: print warning
try_text(mode, line, group, text) ==
    IF TextRaises(mode, text) THEN <<Warning(line, group, text)>>
    ELSE <<TextPiece(line, group, text)>>

\* the underline rectangles of one group, one per underlined sub-run
RECURSIVE group_underlines(_, _, _, _)
group_underlines(line, group, runs, k) ==
    IF k > Len(runs) THEN << >>
    ELSE (IF runs[k].underline
          THEN <<UnderlinePiece(line, group, k, runs[k].text)>> ELSE << >>)
         \o group_underlines(line, group, runs, k + 1)

\* one non-empty line of the styled branch: every group's text, then its
\* underlines
RECURSIVE styled_line_events(_, _, _, _)
styled_line_events(mode, line, groups, g) ==
    IF g > Len(groups) THEN << >>
    ELSE try_text(mode, line, g, groups[g].text)
         \o group_underlines(line, g, groups[g].runs, 1)
         \o styled_line_events(mode, line, groups, g + 1)

\* one non-empty line of the global-style branch
global_line_events(mode, line, text, underline) ==
    try_text(mode, line, 1, text)
    \o (IF underline THEN <<UnderlinePiece(line, 1, 1, text)>> ELSE << >>)

\* the loop over the non-empty lines, in either branch
RECURSIVE text_events(_, _, _, _)
text_events(p, mode, line_texts, i) ==
    IF i > Len(line_texts) THEN << >>
    ELSE (IF Strip(line_texts[i]) = << >> THEN << >>
          ELSE IF p.styled_lines.some
          THEN styled_line_events(mode, i, merge_groups(<< >>, p.styled_lines.runs[i]), 1)
          ELSE global_line_events(mode, i, Strip(line_texts[i]), p.underline))
         \o text_events(p, mode, line_texts, i + 1)

SelectSeq2(seq, kinds) == SelectSeq(seq, LAMBDA e : e.kind \in kinds)

\* _create_text_solids(params): the solids appended, the warnings printed,
\* and whether a combined solid or None is returned
create_text_pieces(p, mode) ==
    LET line_texts == get_line_texts(p)
        non_empty == {i \in 1 .. Len(line_texts) : Strip(line_texts[i]) # << >>}
        sizes == auto_font_sizes(p)
        events == text_events(p, mode, line_texts, 1)
        solids == SelectSeq2(events, {"text", "underline"})
    IN  IF non_empty = {}
        THEN [kind |-> "None", texts |-> line_texts, solids |-> << >>, warnings |-> << >>]
        ELSE IF sizes.kind = "raise"
        THEN [kind |-> "raise", texts |-> line_texts, solids |-> << >>, warnings |-> << >>]
        ELSE [kind |-> IF solids = << >> THEN "None" ELSE "combined",
              texts |-> line_texts, solids |-> solids,
              warnings |-> SelectSeq2(events, {"warning"})]

\* Horizontal placement.  x and y are held as 40 * millimetres, thicknesses
\* as 100 * millimetres, font sizes as whole millimetres.
\* 40 * (n * CHAR_WIDTH_RATIO * font_size)
text_width40(n, font_size) == (40 * n * CharWidthNum * font_size) \div CharWidthDen

\* the text() call of one group: its centre and the width allotted to it
PlacedText(group, cx40, y40, w40) ==
    [kind |-> "text", group |-> group, run |-> 0, cx40 |-> cx40, cy40 |-> y40,
     w40 |-> w40, t100 |-> 0]
\* center(char_x + sub_w / 2, ul_y).rect(sub_w, ul_thickness)
PlacedUnderline(group, run, cx40, cy40, w40, t100) ==
    [kind |-> "underline", group |-> group, run |-> run, cx40 |-> cx40,
     cy40 |-> cy40, w40 |-> w40, t100 |-> t100]

\* the loop over a group's sub-runs: a rectangle for every underlined one,
\* char_x moving on by every sub-run's width
RECURSIVE place_sub_runs(_, _, _, _, _, _)
place_sub_runs(group, runs, k, char_x, font_size, y40) ==
    IF k > Len(runs) THEN << >>
    ELSE LET sub_w == text_width40(Len(runs[k].text), font_size)
             ul_thickness == Max(40, 6 * font_size)
             ul_y == y40 - 14 * font_size
         IN  (IF runs[k].underline
              THEN <<PlacedUnderline(group, k, char_x + sub_w \div 2, ul_y,
                                     sub_w, ul_thickness)>>
              ELSE << >>)
             \o place_sub_runs(group, runs, k + 1, char_x + sub_w, font_size, y40)

\* A placement that centres every group on the line, as for a single group
RECURSIVE place_groups_centred(_, _, _, _, _)
place_groups_centred(groups, g, x, font_size, y40) ==
    IF g > Len(groups) THEN << >>
    ELSE LET g_w == text_width40(Len(groups[g].text), font_size)
         IN  <<PlacedText(g, 0, y40, g_w)>>
             \o place_sub_runs(g, groups[g].runs, 1, -(g_w \div 2), font_size, y40)
             \o place_groups_centred(groups, g + 1, x, font_size, y40)

\* the loop over several groups: each at x + g_w / 2, x moving on by g_w
RECURSIVE place_groups(_, _, _, _, _)
place_groups(groups, g, x, font_size, y40) ==
    IF g > Len(groups) THEN << >>
    ELSE LET g_w == text_width40(Len(groups[g].text), font_size)
             g_cx == x + g_w \div 2
         IN  <<PlacedText(g, g_cx, y40, g_w)>>
             \o place_sub_runs(g, groups[g].runs, 1, x, font_size, y40)
             \o place_groups(groups, g + 1, x + g_w, font_size, y40)

\* one line of the styled branch at font_size and y: a single group is
\* rendered centred, several are laid out from -total_w / 2
place_line(groups, font_size, y40) ==
    IF groups = << >> THEN << >>
    ELSE IF Len(groups) = 1
    THEN LET full_w == text_width40(Len(groups[1].text), font_size)
         IN  <<PlacedText(1, 0, y40, full_w)>>
             \o place_sub_runs(1, groups[1].runs, 1, -(full_w \div 2), font_size, y40)
    ELSE LET full_text == JoinRuns(groups)
             total_w == text_width40(Len(full_text), font_size)
         IN  place_groups(groups, 1, -(total_w \div 2), font_size, y40)

\* SignParams.sizes: None, or a list of sizes in whole millimetres
NoSizes == [some |-> FALSE, list |-> << >>]
ExplicitSizes(l) == [some |-> TRUE, list |-> l]

\* [i for i, l in enumerate(line_texts) if l.strip()], counted from 1 and
\* in order
non_empty_index_list(line_texts) ==
    SelectSeq([i \in 1 .. Len(line_texts) |-> i],
              LAMBDA i : Strip(line_texts[i]) # << >>)

\* A layout that gives the k-th non-empty line the k-th size of the list
line_layout_by_rank(p, sizes) ==
    LET line_texts == get_line_texts(p)
        idx == non_empty_index_list(line_texts)
        explicit == sizes.some /\ sizes.list # << >>
                    /\ Len(sizes.list) = Len(line_texts)
        auto == auto_font_sizes(p)
        chosen == IF explicit
                  THEN [i \in 1 .. Len(sizes.list) |-> Q(sizes.list[i], 1)]
                  ELSE auto.sizes
        \* sizes[i] if i < len(sizes) else sizes[-1]
        SizeAt(i) == IF i <= Len(chosen) THEN chosen[i] ELSE chosen[Len(chosen)]
        line_data == [k \in 1 .. Len(idx) |->
                         [text |-> Strip(line_texts[idx[k]]), size |-> SizeAt(k)]]
    IN  IF idx = << >>
        THEN [kind |-> "None", texts |-> line_texts, source |-> "none",
              sizes |-> << >>, line_data |-> << >>, y_positions |-> << >>]
        ELSE IF ~explicit /\ auto.kind = "raise"
        THEN [kind |-> "raise", texts |-> line_texts, source |-> "auto",
              sizes |-> << >>, line_data |-> << >>, y_positions |-> << >>]
        ELSE [kind |-> "layout", texts |-> line_texts,
              source |-> IF explicit THEN "explicit" ELSE "auto",
              sizes |-> chosen, line_data |-> line_data,
              y_positions |-> calc_line_positions(
                                 [k \in 1 .. Len(idx) |-> line_data[k].size.n], p.ls10)]

\* _create_text_solids(params) up to y_positions: the size list chosen, the
\* (text, size) pairs of the non-empty lines and their vertical centres.
\* The sizes of one list share a denominator, so the centres are held as
\* 40 * y * den.
line_layout(p, sizes) ==
    LET line_texts == get_line_texts(p)
        idx == non_empty_index_list(line_texts)
        explicit == sizes.some /\ sizes.list # << >>
                    /\ Len(sizes.list) = Len(line_texts)
        auto == auto_font_sizes(p)
        chosen == IF explicit
                  THEN [i \in 1 .. Len(sizes.list) |-> Q(sizes.list[i], 1)]
                  ELSE auto.sizes
        \* sizes[i] if i < len(sizes) else sizes[-1]
        SizeAt(i) == IF i <= Len(chosen) THEN chosen[i] ELSE chosen[Len(chosen)]
        line_data == [k \in 1 .. Len(idx) |->
                         [text |-> Strip(line_texts[idx[k]]), size |-> SizeAt(idx[k])]]
    IN  IF idx = << >>
        THEN [kind |-> "None", texts |-> line_texts, source |-> "none",
              sizes |-> << >>, line_data |-> << >>, y_positions |-> << >>]
        ELSE IF ~explicit /\ auto.kind = "raise"
        THEN [kind |-> "raise", texts |-> line_texts, source |-> "auto",
              sizes |-> << >>, line_data |-> << >>, y_positions |-> << >>]
        ELSE [kind |-> "layout", texts |-> line_texts,
              source |-> IF explicit THEN "explicit" ELSE "auto",
              sizes |-> chosen, line_data |-> line_data,
              y_positions |-> calc_line_positions(
                                 [k \in 1 .. Len(idx) |-> line_data[k].size.n], p.ls10)]

\* generate_sign(params), as far as the text decides it: with no border,
\* (None, plate) when there are no text solids, else (black, white)
generate_sign_returns(text, border_present) ==
    IF text.kind = "raise" THEN "raise"
    ELSE IF text.kind = "None" /\ ~border_present THEN "None, plate"
    ELSE "black_piece, white_piece"

-----------------------------------------------------------------------------
(* SpecLayout: the functions above applied to bounded inputs *)

MaxLayLines == 2   \* most text lines / document blocks tried

LayTexts == { << >>, <<" ">>, <<"a">>, <<" ", "a", "b", " ">> }
LayLines == SeqsUpTo(LayTexts, MaxLayLines)

\* blocks of the panel's document: empty, blank, "Her " bold + "bor", one
\* group with an underlined sub-run, a bold underlined run, three groups
LayBlocks ==
    { << >>,
      <<Fragment(<<" ">>, FALSE, FALSE, FALSE)>>,
      <<Fragment(<<"H", "e", "r", " ">>, TRUE, FALSE, FALSE),
        Fragment(<<"b", "o", "r">>, FALSE, FALSE, FALSE)>>,
      <<Fragment(<<"a">>, FALSE, FALSE, FALSE),
        Fragment(<<"b">>, FALSE, FALSE, TRUE)>>,
      <<Fragment(<<"b">>, TRUE, FALSE, TRUE)>>,
      <<Fragment(<<"a">>, FALSE, TRUE, FALSE),
        Fragment(<<" ">>, FALSE, FALSE, FALSE),
        Fragment(<<"b">>, TRUE, FALSE, TRUE)>> }
LayDocs == UNION {[1 .. k -> LayBlocks] : k \in 1 .. MaxLayLines}

\* text of a configuration: plain lines (the CLI), what the panel builds,
\* and a hand-built one whose plain lines differ from its runs
CliTexts == {[lines |-> l, styled_lines |-> NoStyledLines] : l \in LayLines}
PanelTexts == {get_params(d) : d \in LayDocs}
HandBuiltTexts ==
    {[lines |-> << <<"z">>, << >> >>,
      styled_lines |-> StyledLines(<< <<StyledRun(<<"a">>, TRUE, FALSE, FALSE),
                                        StyledRun(<<"b", "b">>, FALSE, FALSE, TRUE)>> >>)]}

LineSpacings == {-20, -10, 0, 8, 13, 30}

WithLayout(t, underline, style, bw, r, w, h, ls10) ==
    [lines |-> t.lines, styled_lines |-> t.styled_lines, underline |-> underline,
     border_style |-> style, border_width |-> bw, border_offset |-> 6,
     corner_radius |-> r, width |-> w, height |-> h, ls10 |-> ls10]

\* configurations for auto_font_sizes
SizingParams ==
    {WithLayout(t, FALSE, style, bw, r, w, h, ls10) :
        t \in CliTexts \cup {get_params(<<b>>) : b \in LayBlocks} \cup HandBuiltTexts,
        style \in {"concave", "none"}, bw \in {0, 2}, r \in {0, 12},
        w \in {0, 10, 180}, h \in {-5, 120}, ls10 \in LineSpacings}

\* configurations for _create_text_solids: the default plate
TextParams ==
    {WithLayout(t, ul, "concave", 2, 12, 180, 120, 13) :
        t \in CliTexts \cup PanelTexts \cup HandBuiltTexts, ul \in BOOLEAN}

MaxLineRuns == 3   \* most runs in one styled line

\* runs of a styled line: one character or two, regular or bold, underlined
\* or not, and runs without text, bold or italic
LayRuns ==
    {StyledRun(t, b, FALSE, ul) :
        t \in {<<"a">>, <<"b", "b">>}, b \in BOOLEAN, ul \in BOOLEAN}
    \cup {StyledRun(<< >>, TRUE, FALSE, FALSE), StyledRun(<< >>, FALSE, TRUE, TRUE)}
LayRunLines == SeqsUpTo(LayRuns, MaxLineRuns)

\* font sizes and line centres to place a line at: 5 and 10 mm, 0.06 * size
\* being under 0.4 mm for the first and over for the second
PlaceSizes == {5, 10}
PlaceYs == {0, -260}

\* sizes of a configuration: none, or a list that is empty, shorter than,
\* as long as or longer than the lines
SizeLists == {NoSizes} \cup {ExplicitSizes(l) : l \in SeqsUpTo({10, 30}, MaxLayLines + 1)}

\* configurations for the line layout: the default plate, at the default
\* line spacing and at -1.0
LayoutParams ==
    {WithLayout(t, FALSE, "concave", 2, 12, 180, 120, ls10) :
        t \in CliTexts \cup {get_params(<<b>>) : b \in LayBlocks} \cup HandBuiltTexts,
        ls10 \in {13, -10}}

FailModes == {"none", "b", "all"}
LineSizes == {-10, 0, 10, 30}

LayInputs ==
    {[kind |-> "sizing", p |-> p] : p \in SizingParams}
    \cup {[kind |-> "text", p |-> p, mode |-> m, border |-> b] :
            p \in TextParams, m \in FailModes, b \in BOOLEAN}
    \cup {[kind |-> "doc", doc |-> d] : d \in LayDocs}
    \cup {[kind |-> "runs", runs |-> r] : r \in LayRunLines}
    \cup {[kind |-> "layout", p |-> p, sizes |-> sz] :
            p \in LayoutParams, sz \in SizeLists}
    \cup {[kind |-> "place", runs |-> r, font_size |-> f, y40 |-> y] :
            r \in LayRunLines, f \in PlaceSizes, y \in PlaceYs}
    \cup {[kind |-> "positions", sizes |-> s, ls10 |-> l] :
            s \in SeqsUpTo(LineSizes, MaxLayLines + 1), l \in LineSpacings}

\* sizes = auto_font_sizes(params), called twice, and once more with another
\* line spacing
ApplyAutoFontSizes ==
    /\ UNCHANGED <<genVars, expVars, geoVars>>
    /\ lay.fn = "input" /\ lay.in.kind = "sizing"
    /\ \E ls2 \in LineSpacings :
          lay' = [fn |-> "auto_font_sizes", in |-> lay.in,
                  texts |-> get_line_texts(lay.in.p),
                  out |-> auto_font_sizes(lay.in.p),
                  again |-> auto_font_sizes(lay.in.p),
                  ls2 |-> ls2,
                  out2 |-> auto_font_sizes([lay.in.p EXCEPT !.ls10 = ls2])]

\* y_positions = _calc_line_positions(line_data, line_spacing)
ApplyCalcLinePositions ==
    /\ UNCHANGED <<genVars, expVars, geoVars>>
    /\ lay.fn = "input" /\ lay.in.kind = "positions"
    /\ lay' = [fn |-> "calc_line_positions", in |-> lay.in,
               out |-> calc_line_positions(lay.in.sizes, lay.in.ls10)]

\* params = parameter_panel.get_params()
ApplyGetParams ==
    /\ UNCHANGED <<genVars, expVars, geoVars>>
    /\ lay.fn = "input" /\ lay.in.kind = "doc"
    /\ lay' = [fn |-> "get_params", in |-> lay.in, out |-> get_params(lay.in.doc)]

\* text_solids = _create_text_solids(params) and generate_sign's return
ApplyCreateTextSolids ==
    /\ UNCHANGED <<genVars, expVars, geoVars>>
    /\ lay.fn = "input" /\ lay.in.kind = "text"
    /\ LET out == create_text_pieces(lay.in.p, lay.in.mode)
       IN  lay' = [fn |-> "create_text_solids", in |-> lay.in,
                   texts |-> out.texts, out |-> out,
                   returns |-> generate_sign_returns(out, lay.in.border)]

\* the group-merging loop of _create_text_solids over one line's runs
ApplyMergeGroups ==
    /\ UNCHANGED <<genVars, expVars, geoVars>>
    /\ lay.fn = "input" /\ lay.in.kind = "runs"
    /\ lay' = [fn |-> "merge_groups", in |-> lay.in,
               out |-> merge_groups(<< >>, lay.in.runs)]

\* one pass of the styled branch's loop body: the groups of a line, then
\* their text() calls and underline rectangles
ApplyPlaceLine ==
    /\ UNCHANGED <<genVars, expVars, geoVars>>
    /\ lay.fn = "input" /\ lay.in.kind = "place"
    /\ LET groups == merge_groups(<< >>, lay.in.runs)
       IN  lay' = [fn |-> "place_line", in |-> lay.in, groups |-> groups,
                   out |-> place_line(groups, lay.in.font_size, lay.in.y40)]

\* _create_text_solids(params), from line_texts to y_positions
ApplyLineLayout ==
    /\ UNCHANGED <<genVars, expVars, geoVars>>
    /\ lay.fn = "input" /\ lay.in.kind = "layout"
    /\ lay' = [fn |-> "line_layout", in |-> lay.in,
               out |-> line_layout(lay.in.p, lay.in.sizes)]

NextLayout ==
    \/ ApplyMergeGroups
    \/ ApplyLineLayout
    \/ ApplyPlaceLine
    \/ ApplyAutoFontSizes
    \/ ApplyCalcLinePositions
    \/ ApplyGetParams
    \/ ApplyCreateTextSolids

-----------------------------------------------------------------------------
(* Specifications *)

GenIdle == /\ params = [lines |-> << >>]
           /\ gpc = "off"
           /\ plate = None /\ text_solids = None /\ border = None
           /\ black_combined = None /\ black_piece = None /\ white_piece = None
           /\ cut_tool = None
           /\ glog = GenLogInit

ExpIdle == /\ panel = 0
           /\ export_btn = FALSE
           /\ threads = << >>
           /\ queue = << >>
           /\ ui = [preview |-> 0, status |-> "off", box |-> [kind |-> "none"]]

InitGenerate ==
    /\ params \in GenParams
    /\ gpc = "start"
    /\ plate = None /\ text_solids = None /\ border = None
    /\ black_combined = None /\ black_piece = None /\ white_piece = None
    /\ cut_tool = None
    /\ glog = GenLogInit
    /\ ExpIdle
    /\ geo = GeoIdle
    /\ lay = LayIdle

\* MainWindow.__init__: no thread, button enabled, status "Ready", the
\* preview shows the panel's parameters
InitExport ==
    /\ panel \in PanelValues
    /\ export_btn = TRUE
    /\ threads = << >>
    /\ queue = << >>
    /\ ui = [preview |-> panel, status |-> "Ready", box |-> [kind |-> "none"]]
    /\ GenIdle
    /\ geo = GeoIdle
    /\ lay = LayIdle

InitGeometry ==
    /\ \E in \in GeoInputs : geo = [fn |-> "input", in |-> in]
    /\ GenIdle
    /\ ExpIdle
    /\ lay = LayIdle

InitLayout ==
    /\ \E in \in LayInputs : lay = [fn |-> "input", in |-> in]
    /\ GenIdle
    /\ ExpIdle
    /\ geo = GeoIdle

SpecGenerate == InitGenerate /\ [][NextGenerate]_vars
SpecExport   == InitExport /\ [][NextExport]_vars
SpecGeometry == InitGeometry /\ [][NextGeometry]_vars
SpecLayout   == InitLayout /\ [][NextLayout]_vars

-----------------------------------------------------------------------------
(* Claims about generate_sign, under SpecGenerate *)

\* C1: for every configuration the returned detail piece and the returned
\* base piece together make up exactly the full plate, and they share no
\* cell, whatever the detail geometry is (also when it reaches outside the
\* plate outline or above the plate thickness).
C1_UnionIsPlateAndDisjoint ==
    gpc = "done" =>
        /\ black_piece.cells \cup white_piece.cells = plate.cells
        /\ black_piece.cells \cap white_piece.cells = {}

\* C2: generate_sign returns (None, plate unchanged) exactly when neither
\* text geometry nor border geometry was produced; otherwise it returns a
\* detail piece and the plate minus that detail piece.
C2_AbsentIffNoGeometry ==
    gpc = "done" =>
        /\ ~black_piece.some <=> (~text_solids.some /\ ~border.some)
        /\ ~black_piece.some => white_piece = plate
        /\ black_piece.some => white_piece = Solid(plate.cells \ black_piece.cells)

\* C2 witness: text lines were given and a border was skipped, yet nothing
\* was produced (every render failed), and the plain plate came back
C2_Witness ==
    /\ gpc = "done"
    /\ ~black_piece.some
    /\ non_empty_indices(params.lines) # {}
    /\ white_piece = plate /\ plate.cells # {}

\* C3: the combination is mirrored before the subtraction: the step that
\* returns a detail piece cuts the plate with the mirrored piece it returns,
\* which is the YZ mirror of the combination, never the combination itself.
C3_MirrorBeforeCut ==
    [][(gpc # "done" /\ gpc' = "done" /\ black_piece'.some) =>
          /\ black_piece = Solid(MirrorYZ(black_combined.cells))
          /\ black_piece' = black_piece
          /\ cut_tool' = black_piece'
          /\ white_piece' = Solid(plate.cells \ black_piece'.cells)
          /\ plate.cells \ white_piece'.cells = plate.cells \cap black_piece'.cells]_vars

\* C3 witness: a finished pass whose detail geometry is not mirror-symmetric
\* and reaches into the plate
C3_Witness ==
    /\ gpc = "done"
    /\ black_piece.some
    /\ black_piece # black_combined
    /\ cut_tool = black_piece
    /\ plate.cells \cap black_piece.cells # plate.cells \cap black_combined.cells

\* C10: when the primary border computation raises, the failure is caught
\* and warned about, never propagated; the fallback result becomes the
\* border; a finished pass still carries the text geometry in its detail
\* piece, and has no border only when the fallback's outer width or height
\* is not positive.
C10_PrimaryFailureFallsBack ==
    glog.primary_failed =>
        /\ glog.raised # "primary"
        /\ glog.warnings = 1
        /\ gpc \in {"parts", "mirror", "cut", "done"} =>
              /\ border = fallback_frame(params)
              /\ ~border.some <=>
                    \/ params.width - 2 * params.border_offset <= 0
                    \/ params.height - 2 * params.border_offset <= 0
        /\ (gpc = "done" /\ text_solids.some) =>
              /\ black_piece.some
              /\ MirrorYZ(text_solids.cells) \subseteq black_piece.cells

\* C10 witness: the primary computation failed, the fallback produced the
\* border, and the pass finished with text and border in the detail piece
C10_Witness ==
    /\ gpc = "done"
    /\ glog.primary_failed
    /\ border.some /\ border.cells # {}
    /\ text_solids.some /\ text_solids.cells # {}
    /\ MirrorYZ(border.cells) \subseteq black_piece.cells

-----------------------------------------------------------------------------
(* Claims about the export worker, under SpecExport *)

Terminal == {"finished", "error"}
CountSig(seq, sigs) == Cardinality({i \in DOMAIN seq : seq[i].sig \in sigs})
Returned(t) == threads[t].pc \in {"returned", "exited"}

\* C4: every run of ExportThread.run reports exactly one terminal outcome:
\* none while it is still working, and once run() has returned either one
\* 'finished' carrying the output locations or one 'error' carrying a
\* message, never both, never neither, whichever step failed; nothing is
\* emitted after the terminal outcome, so no 'finished' follows an 'error'.
C4_ExactlyOneTerminal ==
    /\ [](\A t \in DOMAIN threads :
            LET e == threads[t].emitted
            IN  /\ CountSig(e, Terminal) = IF Returned(t) THEN 1 ELSE 0
                /\ Returned(t) => e[Len(e)].sig \in Terminal
                /\ \A i \in DOMAIN e :
                      /\ e[i].sig = "finished" => e[i].white_file.suffix = "_white.stl"
                      /\ e[i].sig = "error" => e[i].text # "")
    /\ [][\A t \in DOMAIN threads :
            CountSig(threads[t].emitted, Terminal) > 0 =>
                threads'[t].emitted = threads[t].emitted]_vars

\* C4 witness: one run ended in 'finished', another wrote the black file and
\* then failed on the white one, ending in 'error'
C4_Witness ==
    /\ \E t \in DOMAIN threads :
          /\ Returned(t)
          /\ CountSig(threads[t].emitted, {"finished"}) = 1
    /\ \E t \in DOMAIN threads :
          /\ Returned(t)
          /\ threads[t].files = {black_file(t)}
          /\ CountSig(threads[t].emitted, {"error"}) = 1
          /\ CountSig(threads[t].emitted, {"finished"}) = 0

\* the terminal outcome of thread t has not been handled by the UI yet
Unhandled(t) ==
    \/ CountSig(threads[t].emitted, Terminal) = 0
    \/ \E i \in DOMAIN queue : queue[i].thread = t /\ queue[i].sig \in Terminal

\* C5: under any interleaving of export clicks, parameter edits and worker
\* steps, at most one export thread is running; the parameters a worker
\* holds and generates from are the snapshot taken when its export started,
\* whatever the panel shows meanwhile; and the export button stays disabled
\* from the start of a worker until its terminal outcome has been handled.
C5_OneWorkerOwnSnapshot ==
    /\ Cardinality({t \in DOMAIN threads : threads[t].running}) <= 1
    /\ \A t \in DOMAIN threads :
          /\ threads[t].params = threads[t].snapshot
          /\ threads[t].used \in {0, threads[t].snapshot}
          /\ Unhandled(t) => ~export_btn

\* C5 witness: the panel was edited while a worker ran; the worker has
\* generated from its snapshot and the button is still disabled
C5_Witness ==
    \E t \in DOMAIN threads :
        /\ threads[t].running /\ threads[t].pc = "export_white"
        /\ threads[t].used = threads[t].snapshot
        /\ panel # threads[t].snapshot
        /\ ~export_btn

-----------------------------------------------------------------------------
(* Claims about the 2D geometry, under SpecGeometry *)

\* the least of r, w/2 - eps and h/2 - eps, found by search
LeastOf(S) == CHOOSE m \in S : \A x \in S : m <= x

\* C6, as stated: for all width, height and r the effective radius is
\* min(r, w/2 - eps, h/2 - eps) floored at 0, so it never exceeds either
\* half-dimension minus eps; for 40 x 20 mm and r = 100 mm it is at most
\* 9.9 mm; below the 0.1 mm threshold the outline is the plain rectangle.
C6_RadiusNeverExceedsHalfDims ==
    geo.fn = "outline_wire" =>
        LET in == geo.in
            m  == LeastOf({in.r, in.hw - Eps, in.hh - Eps})
        IN  /\ geo.rc = (IF m < 0 THEN 0 ELSE m)
            /\ geo.rc <= in.hw - Eps
            /\ geo.rc <= in.hh - Eps
            /\ (in.hw = 200 /\ in.hh = 100 /\ in.r = 1000) => geo.rc <= 99
            /\ geo.rc < Eps => geo.out = Wire("rect", 2 * in.hw, 2 * in.hh, 0)

\* C6, amended: the effective radius is min(r, w/2 - eps, h/2 - eps) floored
\* at 0; it never exceeds a half-dimension minus eps that is not negative
\* (the floor lifts it above a negative one); an arc-cornered outline uses
\* exactly this radius, which is then at least the threshold and within
\* both half-dimensions minus eps; for 40 x 20 mm and r = 100 mm it is
\* 9.9 mm; below the threshold the outline is the plain w x h rectangle.
C6_ClampedRadius ==
    geo.fn = "outline_wire" =>
        LET in == geo.in
            m  == LeastOf({in.r, in.hw - Eps, in.hh - Eps})
        IN  /\ geo.rc = (IF m < 0 THEN 0 ELSE m)
            /\ in.hw - Eps >= 0 => geo.rc <= in.hw - Eps
            /\ in.hh - Eps >= 0 => geo.rc <= in.hh - Eps
            /\ (in.hw = 200 /\ in.hh = 100 /\ in.r = 1000) => geo.rc = 99
            /\ geo.rc < Eps => geo.out = Wire("rect", 2 * in.hw, 2 * in.hh, 0)
            /\ geo.out.kind # "rect" =>
                  /\ geo.out.kind = in.style
                  /\ geo.out.r = geo.rc /\ geo.rc >= Eps
                  /\ geo.rc <= in.hw - Eps /\ geo.rc <= in.hh - Eps

\* C6 witness: the 40 x 20 mm plate with r = 100 mm, concave, clamped to 9.9 mm
C6_Witness ==
    /\ geo.fn = "outline_wire"
    /\ geo.in.hw = 200 /\ geo.in.hh = 100 /\ geo.in.r = 1000
    /\ geo.out = [kind |-> "concave", w |-> 400, h |-> 200, r |-> 99, d |-> 0]

\* the degenerate cases of the concave offset, as the specification lists them
OffsetDegenerate(hw, hh, r, d) ==
    LET R == r + d
    IN  \/ d >= R
        \/ hw <= d
        \/ hh <= d
        \/ hw <= 0 \/ hw * hw <= R * R - d * d      \* hw <= s
        \/ hh <= 0 \/ hh * hh <= R * R - d * d      \* hh <= s

\* C7, as stated: in every degenerate case of the concave offset (d >= R,
\* hw <= d, hh <= d, or an edge of negative length) the result is the plain
\* inset rectangle with half-extents (hw - d, hh - d).
C7_DegenerateIsInsetRect ==
    geo.fn = "offset_concave_path" =>
        LET in == geo.in
        IN  OffsetDegenerate(in.hw, in.hh, in.r, in.off) =>
                /\ geo.out.kind = "rect"
                /\ geo.out.rect = <<in.off - in.hw, in.off - in.hh,
                                    2 * (in.hw - in.off), 2 * (in.hh - in.off)>>

\* C7, amended: in a degenerate case with hw > d and hh > d (d >= R, or an
\* edge of negative length) the result is the plain inset rectangle with
\* half-extents (hw - d, hh - d); with hw <= d or hh <= d the result is the
\* empty path.
C7_DegenerateFallsBack ==
    geo.fn = "offset_concave_path" =>
        LET in == geo.in
        IN  OffsetDegenerate(in.hw, in.hh, in.r, in.off) =>
                IF in.hw > in.off /\ in.hh > in.off
                THEN /\ geo.out.kind = "rect"
                     /\ geo.out.rect = <<in.off - in.hw, in.off - in.hh,
                                         2 * (in.hw - in.off), 2 * (in.hh - in.off)>>
                     /\ geo.out.rect[3] > 0 /\ geo.out.rect[4] > 0
                ELSE geo.out = EmptyPath

\* C7 witness: d < R, both half-extents exceed d, yet the bottom edge would
\* have negative length (hw < s): the inset rectangle is returned
C7_Witness ==
    /\ geo.fn = "offset_concave_path"
    /\ geo.in.r > 0
    /\ geo.in.hw > geo.in.off /\ geo.in.hh > geo.in.off
    /\ geo.in.hw * geo.in.hw < Sq(geo.in.r + geo.in.off) - Sq(geo.in.off)
    /\ geo.out.kind = "rect"


\* |u| = v, for coordinates
ZAbsEq(u, v, N) == ZEq(u, v, N) \/ ZEq(ZSub(Z(0, 0), u), v, N)

\* the point the path is at before element i
PointBefore(elems, i) == elems[i - 1].to

\* line element i runs along a plate edge, d inside it, and is `len` long
EdgeOk(elems, i, hw, hh, d, N) ==
    LET p == PointBefore(elems, i)
        q == elems[i].to
        S == Z(0, 1)
    IN  \/ /\ ZEq(p.y, q.y, N) /\ ZAbsEq(p.y, Z(hh - d, 0), N)       \* bottom, top
           /\ ZAbsEq(ZSub(q.x, p.x), ZSub(Z(2 * hw, 0), ZAdd(S, S)), N)
        \/ /\ ZEq(p.x, q.x, N) /\ ZAbsEq(p.x, Z(hw - d, 0), N)       \* left, right
           /\ ZAbsEq(ZSub(q.y, p.y), ZSub(Z(2 * hh, 0), ZAdd(S, S)), N)

\* junction point p lies s along one axis and d along the other from corner c
JunctionOk(p, c, d, N) ==
    LET dx == ZSub(p.x, c.x)
        dy == ZSub(p.y, c.y)
        S  == Z(0, 1)
    IN  \/ ZAbsEq(dx, S, N) /\ ZAbsEq(dy, Z(d, 0), N)
        \/ ZAbsEq(dx, Z(d, 0), N) /\ ZAbsEq(dy, S, N)

\* arc element i: centred on a plate corner, radius R, starting where the
\* path is, both junction points at distance R from the corner
ArcOk(elems, i, hw, hh, R, d, N) ==
    LET e == elems[i]
    IN  /\ e.c.x \in {Z(hw, 0), Z(-hw, 0)} /\ e.c.y \in {Z(hh, 0), Z(-hh, 0)}
        /\ e.R = R
        /\ PtEq(e.from, PointBefore(elems, i), N)
        /\ e.on_circle
        /\ ZEq(Dist2(e.from, e.c, N), Z(R * R, 0), N)
        /\ ZEq(Dist2(e.to, e.c, N), Z(R * R, 0), N)
        /\ JunctionOk(e.from, e.c, d, N) /\ JunctionOk(e.to, e.c, d, N)

\* C8: in the non-degenerate case of the concave offset (d < R = r + d,
\* hw > s, hh > s with s*s = R*R - d*d, and the half-extents above d) the
\* path is a closed curve of four straight edges and four arcs: every edge
\* lies d inside its plate edge and is (plate dimension - 2s) long, every arc
\* is centred on its own plate corner with radius R, every junction point is
\* s along one axis and d along the other from its corner and so at distance
\* R from it, consecutive segments share their endpoints and the last arc
\* ends on the starting point.  180 x 120 mm with r = 12 mm, d = 6 mm gives
\* R = 18 mm, s*s = 288 mm^2.  Whatever path is returned when only d < R,
\* hw > s, hh > s are known has no edge or arc that breaks these rules.
C8_OffsetCurveExact ==
    geo.fn = "offset_concave_path" =>
        LET in == geo.in
            hw == in.hw
            hh == in.hh
            d  == in.off
            R  == in.r + d
            N  == R * R - d * d
            el == geo.out.elems
            lines == {i \in DOMAIN el : el[i].op = "lineTo"}
            arcs  == {i \in DOMAIN el : el[i].op = "arc"}
        IN  (d < R /\ hw > 0 /\ hh > 0 /\ hw * hw > N /\ hh * hh > N) =>
               /\ \A i \in lines : EdgeOk(el, i, hw, hh, d, N)
               /\ \A i \in arcs : ArcOk(el, i, hw, hh, R, d, N)
               /\ (hw > d /\ hh > d) =>
                     /\ geo.out.kind = "curve" /\ geo.out.root = N
                     /\ Len(el) = 10
                     /\ el[1].op = "moveTo" /\ el[10].op = "close"
                     /\ lines = {2, 4, 6, 8} /\ arcs = {3, 5, 7, 9}
                     /\ Cardinality({el[i].c : i \in arcs}) = 4
                     /\ PtEq(el[9].to, el[1].to, N)
               /\ (hw = 900 /\ hh = 600 /\ in.r = 120 /\ d = 60) =>
                     /\ R = 180 /\ geo.out.root = 28800
                     /\ geo.out.kind = "curve"

\* C8 witness: the documented case, 180 x 120 mm, r = 12 mm, d = 6 mm, as a
\* curve whose bottom edge starts at (-hw + s, -hh + d)
C8_Witness ==
    /\ geo.fn = "offset_concave_path"
    /\ geo.in.hw = 900 /\ geo.in.hh = 600 /\ geo.in.r = 120 /\ geo.in.off = 60
    /\ geo.out.kind = "curve"
    /\ geo.out.elems[1].to = Pt(Z(-900, 1), Z(-540, 0))
    /\ geo.out.elems[3].sweep = "short"

\* two nested valid outlines: positive outer dimensions, the inner one
\* strictly inside, no negative radius
NestedWires(outer, inner) ==
    /\ outer.w > 0 /\ outer.h > 0 /\ outer.r >= 0
    /\ inner.w > 0 /\ inner.h > 0 /\ inner.r >= 0
    /\ inner.w < outer.w /\ inner.h < outer.h

\* C9: whenever a border is requested and the dimension-based construction
\* is used (the fallback of _create_border_frame, the preview's
\* _build_border_paths), the result is a frame between two nested valid
\* curves or no frame at all: never a shape built from non-positive
\* dimensions or a negative radius, never a filled outer shape with no
\* inner edge.
C9_FrameOrNothing ==
    /\ geo.fn = "fallback_border" =>
          \/ geo.out.result = "None"
          \/ geo.out.result = "cut" /\ NestedWires(geo.out.outer, geo.out.inner)
    /\ (geo.fn = "paint_border" /\ geo.in.style # "none" /\ geo.in.bw > 0) =>
          \/ geo.out.drawn = "nothing"
          \/ /\ geo.out.drawn = "frame"
             /\ geo.out.paths.mode = "dims" =>
                   NestedWires(geo.out.paths.outer, geo.out.paths.inner)

-----------------------------------------------------------------------------
(* Claims about font sizing and line positions, under SpecLayout *)

\* the padding, available width and height as the specification states them
StatedPadding(p) ==
    IF p.border_style # "none" /\ p.border_width > 0
    THEN Q(p.border_offset + p.border_width + 3, 1)
    ELSE IF p.corner_radius >= 8 THEN Q(p.corner_radius, 2) ELSE Q(4, 1)
StatedAvailW(p) == Q(p.width * StatedPadding(p).d - 2 * StatedPadding(p).n, StatedPadding(p).d)
StatedAvailH(p) == Q(p.height * StatedPadding(p).d - 2 * StatedPadding(p).n, StatedPadding(p).d)
NonBlank(texts) == {i \in 1 .. Len(texts) : Strip(texts[i]) # << >>}

\* u * (1 + (n - 1) * lineSpacing) <= availableHeight, and with equality
FitsHeight(u, n, ls10, H) == u.n * (10 + (n - 1) * ls10) * H.d <= 10 * H.n * u.d
TightHeight(u, n, ls10, H) == u.n * (10 + (n - 1) * ls10) * H.d = 10 * H.n * u.d
\* len * 0.55 * u <= availableWidth, and with equality
FitsWidth(u, len, W) == len * CharWidthNum * u.n * W.d <= CharWidthDen * W.n * u.d
TightWidth(u, len, W) == len * CharWidthNum * u.n * W.d = CharWidthDen * W.n * u.d

\* C11: for every configuration with a non-blank line and positive available
\* width and height, auto_font_sizes returns one size u for every line, and
\* u is the largest value with u * (1 + (n - 1) * lineSpacing) <=
\* availableHeight and len(stripped line) * 0.55 * u <= availableWidth for
\* every non-blank line: u fits both, and no larger value does (a limit
\* that grows with u is met with equality).
C11_UniformLargestFit ==
    lay.fn = "auto_font_sizes" =>
        LET p  == lay.in.p
            nb == NonBlank(lay.texts)
            n  == Cardinality(nb)
            W  == StatedAvailW(p)
            H  == StatedAvailH(p)
        IN  (nb # {} /\ W.n > 0 /\ H.n > 0) =>
               /\ lay.out.kind = "sizes"
               /\ Len(lay.out.sizes) = Len(lay.texts)
               /\ \A i \in DOMAIN lay.out.sizes :
                     LET u == lay.out.sizes[i]
                     IN  /\ QEq(u, lay.out.sizes[1])
                         /\ FitsHeight(u, n, p.ls10, H)
                         /\ \A j \in nb : FitsWidth(u, Len(Strip(lay.texts[j])), W)
                         /\ \/ 10 + (n - 1) * p.ls10 > 0 /\ TightHeight(u, n, p.ls10, H)
                            \/ \E j \in nb : TightWidth(u, Len(Strip(lay.texts[j])), W)

AllSizes(out, n, size) ==
    /\ out.kind = "sizes" /\ Len(out.sizes) = n
    /\ \A i \in 1 .. n : QEq(out.sizes[i], size)

\* C12, as stated: in the degenerate cases auto_font_sizes never fails; with
\* no line to size (none, or none non-blank) every size it returns is the
\* default, and whenever the available width or height is not positive it
\* returns the minimal fallback size 5.0 for every line, whatever the lines
\* contain.
C12_FallbackWheneverNoSpace ==
    lay.fn = "auto_font_sizes" =>
        LET p == lay.in.p
            n == Len(lay.texts)
            noSpace == StatedAvailW(p).n <= 0 \/ StatedAvailH(p).n <= 0
        IN  /\ (NonBlank(lay.texts) = {} /\ ~noSpace) => AllSizes(lay.out, n, Q(10, 1))
            /\ noSpace => AllSizes(lay.out, n, Q(5, 1))

\* C12, amended: in the degenerate cases auto_font_sizes never fails: with
\* no lines it returns the empty list; with lines that are all blank it
\* returns the default size 10.0 for every line, whatever the available
\* space is; with a non-blank line and an available width or height that is
\* not positive it returns the minimal fallback size 5.0 for every line.
C12_DefaultThenFallback ==
    lay.fn = "auto_font_sizes" =>
        LET p == lay.in.p
            n == Len(lay.texts)
            noSpace == StatedAvailW(p).n <= 0 \/ StatedAvailH(p).n <= 0
        IN  /\ n = 0 => lay.out = [kind |-> "sizes", sizes |-> << >>]
            /\ NonBlank(lay.texts) = {} => AllSizes(lay.out, n, Q(10, 1))
            /\ (NonBlank(lay.texts) # {} /\ noSpace) => AllSizes(lay.out, n, Q(5, 1))

\* C12 witness: blank lines on a plate without room return the default
\* size, not the fallback
C12_Witness ==
    /\ lay.fn = "auto_font_sizes"
    /\ Len(lay.texts) = 2 /\ NonBlank(lay.texts) = {}
    /\ lay.in.p.width = 0
    /\ AllSizes(lay.out, 2, Q(10, 1))

\* C13: calling auto_font_sizes twice gives the same sizes, and of two
\* configurations that differ only in line spacing, ls1 < ls2, the one with
\* ls2 never gets the greater size, for every line count and every line
\* spacing, those that make 1 + (n - 1) * lineSpacing zero or negative
\* included.
C13_IdempotentAndMonotone ==
    lay.fn = "auto_font_sizes" =>
        /\ lay.again = lay.out
        /\ lay.in.p.ls10 < lay.ls2 =>
              /\ lay.out.kind = "sizes" /\ lay.out2.kind = "sizes"
              /\ \A i \in DOMAIN lay.out.sizes :
                    QLe(lay.out2.sizes[i], lay.out.sizes[i])

RECURSIVE SumSeq(_)
SumSeq(s) == IF s = << >> THEN 0 ELSE Head(s) + SumSeq(Tail(s))

\* C14: for every list of lines with per-line sizes and every line spacing
\* the centres returned by _calc_line_positions sum to 0, and a single
\* line's centre is exactly 0; sizes may differ from line to line.
C14_CentresSumToZero ==
    lay.fn = "calc_line_positions" =>
        /\ SumSeq(lay.out) = 0
        /\ Len(lay.in.sizes) = 1 => lay.out = <<0>>

\* C15: _calc_line_positions returns one centre per line, top line first,
\* consecutive centres (size_i / 2 + size_{i+1} / 2) * lineSpacing apart, the
\* first at +span / 2 and the last at -span / 2, and the centres strictly
\* decrease for every size list and line spacing the command line lets
\* through.
C15_StrictlyDecreasing ==
    lay.fn = "calc_line_positions" =>
        LET s == lay.in.sizes
            n == Len(s)
            gap40(i) == 2 * (s[i] + s[i + 1]) * lay.in.ls10
            span40 == SumSeq([i \in 1 .. n - 1 |-> gap40(i)])
        IN  /\ Len(lay.out) = n
            /\ \A i \in 1 .. n - 1 : lay.out[i] - lay.out[i + 1] = gap40(i)
            /\ n >= 1 => 2 * lay.out[1] = span40 /\ 2 * lay.out[n] = -span40
            /\ \A i \in 1 .. n - 1 : lay.out[i] > lay.out[i + 1]

-----------------------------------------------------------------------------
(* Claims about the text of a configuration, under SpecLayout *)

\* the texts of runs 1 .. k, one after the other
RECURSIVE ConcatRuns(_, _)
ConcatRuns(runs, k) ==
    IF k = 0 THEN << >> ELSE ConcatRuns(runs, k - 1) \o runs[k].text

\* the texts that the text() calls of line i were given, in order
RECURSIVE RenderedText(_, _, _)
RenderedText(events, i, k) ==
    IF k = 0 THEN << >>
    ELSE RenderedText(events, i, k - 1)
         \o (IF events[k].line = i THEN events[k].text ELSE << >>)

\* the text() calls of _create_text_solids: a solid or a warning each, in
\* group order within a line
TextCalls(out, i) ==
    LET calls == SelectSeq(out.solids \o out.warnings,
                           LAMBDA e : e.kind \in {"text", "warning"} /\ e.line = i)
        groups == {calls[k].group : k \in DOMAIN calls}
        byGroup == [g \in 1 .. Cardinality(groups) |->
                       (CHOOSE k \in DOMAIN calls : calls[k].group = g)]
    IN  [g \in 1 .. Cardinality(groups) |-> calls[byGroup[g]]]

\* C16: when styled runs are present they take precedence over the plain
\* lines in auto-sizing and in text solid creation: the text of line i is
\* the concatenation in order of its runs' text, and params.lines is
\* ignored; without styled runs the plain lines are used.  A configuration
\* built by the parameter panel has as many lines as styled lines, and its
\* plain line i is that concatenation (runs 'Her ' bold, 'bor' plain give
\* 'Her bor').
C16_StyledRunsTakePrecedence ==
    /\ lay.fn \in {"auto_font_sizes", "create_text_solids"} =>
          LET p == lay.in.p
              runs == p.styled_lines.runs
          IN  IF p.styled_lines.some
              THEN /\ Len(lay.texts) = Len(runs)
                   /\ \A i \in DOMAIN runs : lay.texts[i] = ConcatRuns(runs[i], Len(runs[i]))
                   /\ lay.fn = "auto_font_sizes" =>
                         lay.out = auto_font_sizes([p EXCEPT !.lines = << <<"z">> >>])
                   /\ lay.fn = "create_text_solids" =>
                         \A i \in NonBlank(lay.texts) :
                            LET calls == TextCalls(lay.out, i)
                            IN  RenderedText(calls, i, Len(calls))
                                   = ConcatRuns(runs[i], Len(runs[i]))
              ELSE lay.texts = p.lines
    /\ lay.fn = "get_params" =>
          LET out == lay.out
              runs == out.styled_lines.runs
          IN  /\ out.styled_lines.some
              /\ Len(out.lines) = Len(runs)
              /\ \A i \in DOMAIN runs : out.lines[i] = ConcatRuns(runs[i], Len(runs[i]))
              /\ (\E i \in DOMAIN runs :
                     /\ Len(runs[i]) = 2
                     /\ runs[i][1].text = <<"H", "e", "r", " ">> /\ runs[i][1].bold
                     /\ runs[i][2].text = <<"b", "o", "r">> /\ ~runs[i][2].bold)
                 => \E i \in DOMAIN out.lines :
                       out.lines[i] = <<"H", "e", "r", " ", "b", "o", "r">>

\* C16 witness: a configuration whose plain lines differ from its runs; the
\* text solids were made from the runs
C16_Witness ==
    /\ lay.fn = "create_text_solids"
    /\ lay.in.p.styled_lines.some
    /\ lay.in.p.lines # lay.texts
    /\ lay.out.kind = "combined"
    /\ lay.texts = << <<"a", "b", "b">> >>
    /\ \E k \in DOMAIN lay.out.solids :
          lay.out.solids[k].kind = "text" /\ lay.out.solids[k].text = <<"b", "b">>

\* the text() calls _create_text_solids has to make for line i: one per
\* style group of the line's runs, or one for the stripped line
ExpectedGroups(p, texts, i) ==
    IF p.styled_lines.some
    THEN merge_groups(<< >>, p.styled_lines.runs[i])
    ELSE <<[text |-> Strip(texts[i]), bold |-> FALSE, italic |-> FALSE,
            runs |-> <<[text |-> Strip(texts[i]), underline |-> p.underline]>>]>>

Has(seq, e) == \E k \in DOMAIN seq : seq[k] = e

\* C17: a text() call that raises is not fatal in _create_text_solids: the
\* failed text's solid is left out and nothing is appended for it, one
\* warning names it, every text that renders and every underline rectangle
\* (those under the failed text too) is still produced, nothing propagates,
\* and generate_sign returns a result whose detail piece is absent only
\* when no solid and no border remain.
C17_RenderFailureNotFatal ==
    lay.fn = "create_text_solids" =>
        LET p == lay.in.p
            out == lay.out
            nb == NonBlank(lay.texts)
        IN  /\ out.kind # "raise" /\ lay.returns # "raise"
            /\ \A i \in nb :
                  LET groups == ExpectedGroups(p, lay.texts, i)
                  IN  \A g \in DOMAIN groups :
                         /\ IF TextRaises(lay.in.mode, groups[g].text)
                            THEN /\ ~\E k \in DOMAIN out.solids :
                                        /\ out.solids[k].kind = "text"
                                        /\ out.solids[k].line = i
                                        /\ out.solids[k].group = g
                                 /\ Has(out.warnings, Warning(i, g, groups[g].text))
                            ELSE /\ Has(out.solids, TextPiece(i, g, groups[g].text))
                                 /\ ~Has(out.warnings, Warning(i, g, groups[g].text))
                         /\ \A r \in DOMAIN groups[g].runs :
                               groups[g].runs[r].underline <=>
                                  Has(out.solids, UnderlinePiece(i, g, r, groups[g].runs[r].text))
            /\ \A k \in DOMAIN out.solids : out.solids[k].line \in nb
            /\ out.kind = "None" <=> out.solids = << >>
            /\ lay.returns = "None, plate" <=> (out.solids = << >> /\ ~lay.in.border)

\* C17 witness: a line of three style groups whose last group cannot be
\* rendered: two text solids, the underline of the failed group, one warning
C17_Witness ==
    /\ lay.fn = "create_text_solids"
    /\ lay.in.mode = "b"
    /\ lay.out.kind = "combined"
    /\ Len(lay.out.warnings) = 1
    /\ lay.out.warnings[1].group = 3
    /\ Len(SelectSeq2(lay.out.solids, {"text"})) = 2
    /\ Has(lay.out.solids, UnderlinePiece(1, 3, 1, <<"b">>))

-----------------------------------------------------------------------------
(* Claims about the border frame, under SpecGenerate *)

\* the cells between the outline moved inward by d1 and by d2, up to depth
BetweenOffsets(p, d1, d2) ==
    LET outline == create_outline_wire(p.width, p.height, p.corner_radius, p.border_style)
    IN  {c \in Axis \X Axis \X (0 .. p.text_depth - 1) :
            /\ InWire(Offset2D(outline, d1), c[1], c[2])
            /\ ~InWire(Offset2D(outline, d2), c[1], c[2])}

\* C18: the border frame is part of the detail piece only when the border
\* style is not 'none' and the border width is positive: for style 'none'
\* or a width <= 0 _create_border_frame returns None whatever the offset is,
\* and the detail piece is the text alone; otherwise (the constant-distance
\* computation going through) the frame is the region between the outline
\* offset inward by borderOffset and the outline offset inward by
\* borderOffset + borderWidth, extruded to the text depth, and it is in the
\* detail piece.
C18_BorderOnlyWhenRequested ==
    gpc \in {"parts", "mirror", "cut", "done"} =>
        /\ (params.border_style = "none" \/ params.border_width <= 0) =>
              /\ ~border.some
              /\ gpc = "done" =>
                    black_piece = IF text_solids.some
                                  THEN Solid(MirrorYZ(text_solids.cells)) ELSE None
        /\ (params.border_style # "none" /\ params.border_width > 0
            /\ ~glog.primary_failed) =>
              /\ border.some
              /\ border.cells = BetweenOffsets(params, params.border_offset,
                                    params.border_offset + params.border_width)
              /\ gpc = "done" => MirrorYZ(border.cells) \subseteq black_piece.cells

\* C18 witness: a finished pass with a border set in from the edge, a frame
\* that covers part of the plate only and is in the detail piece
C18_Witness ==
    /\ gpc = "done"
    /\ ~glog.primary_failed
    /\ params.border_offset >= 1 /\ params.border_width >= 1
    /\ border.some /\ border.cells # {}
    /\ border.cells \subseteq plate.cells /\ border.cells # plate.cells
    /\ MirrorYZ(border.cells) \subseteq black_piece.cells

-----------------------------------------------------------------------------
(* Claims about the exported files, under SpecExport *)

\* the path made of a run's directory, its prefix and a role suffix
Named(t, suffix) ==
    [dir |-> threads[t].output_dir, prefix |-> threads[t].prefix, suffix |-> suffix]

\* run t got through both exports and reported success
Succeeded(t) == CountSig(threads[t].emitted, {"finished"}) = 1

\* the paths a sequence of printed lines or a set of files names, without
\* the directory
Roles(fs) == {<<f.prefix, f.suffix>> : f \in fs \ {NoFile}}

\* C19: on a successful export the files are named '<prefix>_black.stl'
\* (detail) and '<prefix>_white.stl' (base); the base file is always written,
\* the detail file is written if and only if the detail piece is present,
\* and when it is absent no detail path is reported: the 'finished' signal
\* carries the empty path and the message box lists the white file alone.
\* The command line writes and reports the same names for the same prefix.
C19_DeterministicFileNames ==
    /\ \A t \in DOMAIN threads :
          Succeeded(t) =>
              LET fin == threads[t].emitted[Len(threads[t].emitted)]
                  cli == main(threads[t].prefix, threads[t].black)
              IN  /\ Named(t, "_white.stl") \in threads[t].files
                  /\ Named(t, "_black.stl") \in threads[t].files <=> threads[t].black
                  /\ threads[t].files \subseteq {Named(t, "_black.stl"), Named(t, "_white.stl")}
                  /\ fin.white_file = Named(t, "_white.stl")
                  /\ fin.black_file = IF threads[t].black THEN Named(t, "_black.stl") ELSE NoFile
                  /\ Roles(threads[t].files) = Roles(cli.files)
                  /\ Roles({fin.black_file, fin.white_file})
                        = Roles({cli.printed[i].file : i \in DOMAIN cli.printed})
    /\ ui.box.kind = "information" =>
          \E t \in DOMAIN threads :
              /\ Succeeded(t)
              /\ ui.box.white = Named(t, "_white.stl")
              /\ ui.box.black = IF threads[t].black THEN Named(t, "_black.stl") ELSE NoFile

\* C19 witness: one export wrote both files, a later one under another
\* prefix had no detail piece and wrote the white file alone, and its
\* message box is up
C19_Witness ==
    \E t1, t2 \in DOMAIN threads :
        /\ Succeeded(t1) /\ threads[t1].black
        /\ Cardinality(threads[t1].files) = 2
        /\ Succeeded(t2) /\ ~threads[t2].black
        /\ threads[t2].prefix # threads[t1].prefix
        /\ threads[t2].files = {Named(t2, "_white.stl")}
        /\ ui.box.kind = "information" /\ ui.box.black = NoFile
        /\ ui.box.white = Named(t2, "_white.stl")

-----------------------------------------------------------------------------
(* Claims about the preview against the CAD outline, under SpecGeometry *)

\* C20: for every (width, height, cornerRadius, style) the preview's
\* _build_outline_path and the CAD's _create_outline_wire choose the same
\* shape class (plain rectangle or arc-cornered outline) and the same
\* effective corner radius, also when the clamped radius falls below 0.1 mm
\* or the dimensions are small or zero.
C20_PreviewMatchesCad ==
    geo.fn = "outline_path" =>
        /\ geo.out.kind = geo.cad.kind
        /\ geo.out.r = geo.cad.r
        /\ geo.out.w = geo.cad.w /\ geo.out.h = geo.cad.h

-----------------------------------------------------------------------------
(* Claims about the styled runs of one line, under SpecLayout *)

\* the runs of a line that have text, in order
WithText(runs) == SelectSeq(runs, LAMBDA r : r.text # << >>)

\* the sub-runs of all groups in order, each with its group's style
RECURSIVE SubRunsOf(_)
SubRunsOf(groups) ==
    IF groups = << >> THEN << >>
    ELSE LET g == Head(groups)
         IN  [k \in 1 .. Len(g.runs) |->
                 StyledRun(g.runs[k].text, g.bold, g.italic, g.runs[k].underline)]
             \o SubRunsOf(Tail(groups))

\* "".join(g[0] for g in groups)
RECURSIVE JoinGroups(_)
JoinGroups(groups) ==
    IF groups = << >> THEN << >> ELSE Head(groups).text \o JoinGroups(Tail(groups))

\* C21: the style groups of a line of styled runs: runs with empty text are
\* skipped; consecutive remaining runs with the same (bold, italic) pair are
\* in one group and no two adjacent groups share the pair (the groups are
\* maximal); the group texts concatenated are the run texts concatenated, in
\* order; every group's text is the concatenation of its sub-runs, which
\* keep their own underline flags in order.
C21_StyleGroupsAreMaximal ==
    lay.fn = "merge_groups" =>
        LET runs == lay.in.runs
            groups == lay.out
        IN  /\ SubRunsOf(groups) = WithText(runs)
            /\ \A g \in 1 .. Len(groups) :
                  /\ groups[g].runs # << >>
                  /\ groups[g].text = JoinRuns(groups[g].runs)
            /\ \A g \in 1 .. Len(groups) - 1 :
                  <<groups[g].bold, groups[g].italic>>
                      # <<groups[g + 1].bold, groups[g + 1].italic>>
            /\ JoinGroups(groups) = JoinRuns(runs)

\* C21 witness: two runs of one style around a run without text, merged
\* into one group of two sub-runs whose underline flags differ
C21_Witness ==
    /\ lay.fn = "merge_groups"
    /\ Len(lay.in.runs) = 3
    /\ \E i \in 1 .. 3 : lay.in.runs[i].text = << >>
    /\ Len(lay.out) = 1
    /\ Len(lay.out[1].runs) = 2
    /\ lay.out[1].runs[1].underline # lay.out[1].runs[2].underline

\* the items of a placement that are text() calls, or underline rectangles
TextItems(items) == SelectSeq(items, LAMBDA e : e.kind = "text")
UnderlineItems(items) == SelectSeq(items, LAMBDA e : e.kind = "underline")

\* the number of characters in the sub-runs before sub-run k
RECURSIVE CharsBefore(_, _)
CharsBefore(runs, k) ==
    IF k <= 1 THEN 0 ELSE CharsBefore(runs, k - 1) + Len(runs[k - 1].text)

\* the number of characters in the groups before group g
RECURSIVE GroupCharsBefore(_, _)
GroupCharsBefore(groups, g) ==
    IF g <= 1 THEN 0 ELSE GroupCharsBefore(groups, g - 1) + Len(groups[g - 1].text)

\* left and right end of a placed item, as 40 * mm
LeftEnd(e) == e.cx40 - e.w40 \div 2
RightEnd(e) == e.cx40 + e.w40 \div 2

\* C22: a line with several style groups at font size f, n characters in
\* all: the total width is n * 0.55 * f; the groups lie left to right from
\* -total/2, each on an interval of len(group) * 0.55 * f, each starting
\* where the one before ended, the last ending at +total/2; every
\* underlined sub-run has exactly one rectangle over its own interval, of
\* width len(sub-run) * 0.55 * f, thickness max(0.4, 0.06 * f) and centre
\* 0.35 * f below the line's centre; a sub-run that is not underlined has
\* none.
C22_GroupsTileTheLine ==
    (lay.fn = "place_line" /\ Len(lay.groups) > 1) =>
        LET groups == lay.groups
            f == lay.in.font_size
            n == Len(JoinRuns(lay.in.runs))
            texts == TextItems(lay.out)
            uls == UnderlineItems(lay.out)
            Start(g) == -11 * n * f + 22 * f * GroupCharsBefore(groups, g)
        IN  /\ Len(texts) = Len(groups)
            /\ \A g \in 1 .. Len(groups) :
                  /\ texts[g].group = g
                  /\ texts[g].cy40 = lay.in.y40
                  /\ texts[g].w40 = 22 * f * Len(groups[g].text)
                  /\ LeftEnd(texts[g]) = Start(g)
                  /\ g > 1 => LeftEnd(texts[g]) = RightEnd(texts[g - 1])
            /\ LeftEnd(texts[1]) = -11 * n * f
            /\ RightEnd(texts[Len(groups)]) = 11 * n * f
            /\ \A g \in 1 .. Len(groups) : \A k \in 1 .. Len(groups[g].runs) :
                  LET mine == SelectSeq(uls, LAMBDA e : e.group = g /\ e.run = k)
                  IN  IF groups[g].runs[k].underline
                      THEN /\ Len(mine) = 1
                           /\ mine[1].w40 = 22 * f * Len(groups[g].runs[k].text)
                           /\ LeftEnd(mine[1])
                                = Start(g) + 22 * f * CharsBefore(groups[g].runs, k)
                           /\ mine[1].t100 = (IF 6 * f > 40 THEN 6 * f ELSE 40)
                           /\ mine[1].cy40 = lay.in.y40 - 14 * f
                      ELSE mine = << >>
            /\ \A i \in 1 .. Len(uls) :
                  /\ uls[i].group \in 1 .. Len(groups)
                  /\ uls[i].run \in 1 .. Len(groups[uls[i].group].runs)

\* C22 witness: three groups, the middle one underlined and not on the
\* line's centre, at a size whose underline is thicker than 0.4 mm
C22_Witness ==
    /\ lay.fn = "place_line"
    /\ Len(lay.groups) = 3
    /\ lay.in.font_size = 10
    /\ Len(lay.groups[1].text) = 2 /\ Len(lay.groups[3].text) = 1
    /\ \E i \in 1 .. Len(lay.out) :
          /\ lay.out[i].kind = "underline" /\ lay.out[i].group = 2
          /\ lay.out[i].cx40 # 0 /\ lay.out[i].t100 = 60

-----------------------------------------------------------------------------
(* Claims about the stages of an export, under SpecExport *)

\* the stage notifications of a complete run, with or without a detail piece
Stages(black) ==
    <<"Importing CadQuery...", "Generating geometry...">>
    \o (IF black THEN <<"Exporting black piece...">> ELSE << >>)
    \o <<"Exporting white piece...">>

IsPrefix(a, b) == Len(a) <= Len(b) /\ a = SubSeq(b, 1, Len(a))
IsSuffix(a, b) == Len(a) <= Len(b) /\ a = SubSeq(b, Len(b) - Len(a) + 1, Len(b))

\* the texts of the progress signals in a sequence of signals, in order
RECURSIVE ProgressTexts(_)
ProgressTexts(e) ==
    IF e = << >> THEN << >>
    ELSE (IF Head(e).sig = "progress" THEN <<Head(e).text>> ELSE << >>)
         \o ProgressTexts(Tail(e))

\* C23: within a run the stage notifications come in a fixed order:
\* 'Importing CadQuery...', 'Generating geometry...', 'Exporting black
\* piece...' exactly when the detail piece is present, 'Exporting white
\* piece...'; 'finished' comes only after all of them; no progress
\* notification follows the terminal outcome; a failed run has emitted a
\* prefix of this sequence and then 'error'.  The main window receives a
\* run's signals in the order of their emission.
C23_StagesInOrder ==
    \A t \in DOMAIN threads :
        LET e == threads[t].emitted
            stages == ProgressTexts(e)
        IN  /\ \E b \in BOOLEAN : IsPrefix(stages, Stages(b))
            /\ threads[t].used # 0 => IsPrefix(stages, Stages(threads[t].black))
            /\ \A i \in DOMAIN e :
                  /\ e[i].sig \in Terminal => i = Len(e)
                  /\ e[i].sig = "finished" => stages = Stages(threads[t].black)
                  /\ e[i].sig = "error" => Len(stages) >= 1
            /\ IsSuffix(SelectSeq(queue, LAMBDA m : m.thread = t), e)

\* C23 witness: one run went through all four stages to 'finished', another
\* failed while generating, after two stages
C23_Witness ==
    /\ \E t \in DOMAIN threads :
          /\ threads[t].black
          /\ Len(threads[t].emitted) = 5
          /\ threads[t].emitted[5].sig = "finished"
    /\ \E t \in DOMAIN threads :
          /\ Len(threads[t].emitted) = 3
          /\ threads[t].emitted[3].sig = "error"
          /\ threads[t].emitted[2].text = "Generating geometry..."

-----------------------------------------------------------------------------
(* Claims about the dimension-based border, under SpecGeometry *)

\* an outline of width w, height h and radius r moved inward by d: shrunk by
\* 2 * d, the radius reduced by d and floored at zero
DimOffset(o, d) ==
    [w |-> o.w - 2 * d, h |-> o.h - 2 * d, r |-> IF o.r - d > 0 THEN o.r - d ELSE 0]

OuterEdge(b) == [w |-> b.outer_w, h |-> b.outer_h, r |-> b.outer_r]
InnerEdge(b) == [w |-> b.inner_w, h |-> b.inner_h, r |-> b.inner_r]

\* C24: the dimension-based border: the outer edge is the outline shrunk by
\* 2 * off with the radius reduced by off, floored at zero; the inner edge,
\* built as a second offset of the outer edge by bw, equals a single offset
\* of the outline by off + bw (inner width = width - 2 * (off + bw), inner
\* height likewise, inner radius = max(0, r - off - bw)), for off >= 0 and
\* bw > 0; the CAD fallback and the preview compute identical values.
C24_TwoOffsetsAreOne ==
    geo.fn = "border_dims" =>
        LET in == geo.in
            outline == [w |-> 2 * in.hw, h |-> 2 * in.hh, r |-> in.r]
        IN  /\ geo.cad = geo.out
            /\ OuterEdge(geo.cad) = DimOffset(outline, in.off)
            /\ InnerEdge(geo.cad) = DimOffset(OuterEdge(geo.cad), in.bw)
            /\ InnerEdge(geo.cad) = DimOffset(outline, in.off + in.bw)
            /\ geo.out.inner_w = 2 * in.hw - 2 * (in.off + in.bw)
            /\ geo.out.inner_h = 2 * in.hh - 2 * (in.off + in.bw)
            /\ geo.out.inner_r = Max(0, in.r - in.off - in.bw)

\* C24 witness: a rounded border whose offset leaves some radius and whose
\* width takes the rest: the floor at zero acts on the inner edge only
C24_Witness ==
    /\ geo.fn = "border_dims"
    /\ geo.in.style = "rounded"
    /\ geo.in.off > 0 /\ geo.in.bw > 0
    /\ geo.out.outer_r > 0
    /\ geo.in.r - geo.in.off - geo.in.bw < 0
    /\ geo.cad.inner_r = 0
    /\ geo.cad.inner_w > 0 /\ geo.cad.inner_h > 0

-----------------------------------------------------------------------------
(* Claims about the sizes of the lines, under SpecLayout *)

\* C25: in _create_text_solids explicit per-line sizes are used only when
\* their count equals the number of lines, otherwise auto-sizing is used;
\* in both cases the size list has one entry per line, blank lines
\* included, so every non-blank line gets the entry at its own index; blank
\* lines get no layout slot, and there are as many vertical centres as
\* non-blank lines.  When the auto-sizing raises (its divisor
\* 1 + (n_text - 1) * line_spacing is zero) no list, slot or centre is
\* produced at all.
C25_OneSizePerLine ==
    lay.fn = "line_layout" =>
        LET texts == get_line_texts(lay.in.p)
            given == lay.in.sizes
            idx == non_empty_index_list(texts)
            counts_match == given.some /\ Len(given.list) = Len(texts)
            out == lay.out
        IN  IF idx = << >> THEN out.kind = "None"
            ELSE IF out.kind = "raise"
            THEN /\ ~counts_match
                 /\ 10 + (Len(idx) - 1) * lay.in.p.ls10 = 0
                 /\ out.line_data = << >> /\ out.y_positions = << >>
            ELSE /\ out.kind = "layout"
                 /\ out.source = "explicit" <=> counts_match
                 /\ out.source = "explicit" =>
                      out.sizes = [i \in 1 .. Len(texts) |-> Q(given.list[i], 1)]
                 /\ out.source # "explicit" => out.source = "auto"
                 /\ Len(out.sizes) = Len(texts)
                 /\ Len(out.line_data) = Len(idx)
                 /\ \A k \in 1 .. Len(idx) :
                       /\ out.line_data[k].text = Strip(texts[idx[k]])
                       /\ out.line_data[k].size = out.sizes[idx[k]]
                 /\ Len(out.y_positions) = Len(idx)

\* C25 witness: a blank line above a line of text, with two explicit sizes:
\* the text gets the second size and the only vertical centre
C25_Witness ==
    /\ lay.fn = "line_layout"
    /\ Len(lay.out.texts) = 2
    /\ Strip(lay.out.texts[1]) = << >> /\ Strip(lay.out.texts[2]) # << >>
    /\ lay.in.sizes = ExplicitSizes(<<10, 30>>)
    /\ lay.out.source = "explicit"
    /\ Len(lay.out.line_data) = 1
    /\ lay.out.line_data[1].size = Q(30, 1)
    /\ lay.out.y_positions = <<0>>

=============================================================================
